---- MODULE Spec2Model ----
(***************************************************************************)
(* Panel-schedule synthesis of attached_assets/panel_schedule: the device  *)
(* pool, the fifteen allocation rule blocks, the load/demand calculation   *)
(* and the panel sizer of generate_panel_schedule, as a state machine with *)
(* one action per rule block.  Python dicts are partial functions; the     *)
(* caller's symbol_counts dict and each call's `remaining` dict are        *)
(* objects of a heap, reached through references.                          *)
(***************************************************************************)
EXTENDS Integers, Sequences, FiniteSets, TLC

VARIABLES
    heap,                \* object id -> dict (device type -> count)
    detected_rooms,      \* argument: sequence of room_type strings
    dwelling_type,       \* argument
    has_electric_range,  \* argument
    has_ac,              \* argument
    has_electric_heat,   \* argument
    total_sqft,          \* argument
    frame,               \* call id -> the locals of that invocation
    edit                 \* what the caller did to symbol_counts between calls

vars == <<heap, detected_rooms, dwelling_type, has_electric_range, has_ac,
          has_electric_heat, total_sqft, frame, edit>>

args == <<detected_rooms, dwelling_type, has_electric_range, has_ac,
          has_electric_heat, total_sqft>>

------------------------------------------------------------------------------
\* Bounds of the model

MaxCount == 3
MaxGfci == 7
MaxNeg == 1
BulkCount == 140
CrowdCount == 40
OverfullCount == 98
MaxHeatHalves == 9
MaxBulk == 26

------------------------------------------------------------------------------
\* Program constants

MAX_PER_15A == 12
KitchenGfciCap == 6
PerSplit == 3
BasicBlock == 5000
SqftOverride == 1500
Volts == 240

LightingTypes ==
    <<"recessed_light", "surface_mount_light", "pendant_light",
      "ceiling_fan", "track_light", "fluorescent_light">>

SwitchTypes ==
    <<"single_pole_switch", "three_way_switch", "four_way_switch",
      "dimmer_switch", "occupancy_sensor">>

LowVoltageTypes ==
    <<"doorbell", "thermostat", "data_outlet", "phone_outlet",
      "cable_tv_outlet">>

SmokeTypes == <<"smoke_co_combo", "smoke_detector", "co_detector">>

GeneralReceptacleTypes ==
    <<"duplex_receptacle", "gfci_receptacle",
      "weather_resistant_receptacle", "dedicated_receptacle">>

Range(s) == {s[i] : i \in DOMAIN s}

\* The device types some allocation rule consumes
HandledTypes ==
    Range(LightingTypes) \cup Range(SwitchTypes) \cup Range(LowVoltageTypes)
      \cup Range(SmokeTypes) \cup Range(GeneralReceptacleTypes)
      \cup {"range_hood_fan", "exhaust_fan", "exhaust_fan_bathroom",
            "dryer_outlet", "ev_charger", "outdoor_receptacle",
            "exterior_light"}

\* The keys of DEVICE_WATTS: the handled types and panel_board, which no
\* rule references
DeviceTypes == HandledTypes \cup {"panel_board"}

RoomKinds ==
    {"kitchen", "bathroom", "powder_room", "laundry_room", "garage",
     "bedroom", "primary_bedroom", "living_room", ""}

DwellingTypes == {"single", "duplex", "triplex", "fourplex", "townhouse"}

Calls == {"c1", "c2"}
CallerObj == "symbol_counts"

------------------------------------------------------------------------------
\* Python built-ins

Min(a, b) == IF a <= b THEN a ELSE b
Max(a, b) == IF a >= b THEN a ELSE b

\* int(n / d) for d > 0: truncation toward zero
IntDiv(n, d) == IF n >= 0 THEN n \div d ELSE -((-n) \div d)

\* format(n / d, ".0f") for d > 0: round half to even
RoundHalfEvenNat(n, d) ==
    LET q == n \div d
        r == n % d
    IN  IF 2 * r < d THEN q
        ELSE IF 2 * r > d THEN q + 1
        ELSE IF q % 2 = 0 THEN q ELSE q + 1

RoundHalfEven(n, d) ==
    IF n >= 0 THEN RoundHalfEvenNat(n, d) ELSE -RoundHalfEvenNat(-n, d)

EmptyDict == [k \in {} |-> 0]

\* dict.get(k, 0)
Get(d, k) == IF k \in DOMAIN d THEN d[k] ELSE 0

\* d[k] = v
Put(d, k, v) == [x \in (DOMAIN d) \cup {k} |-> IF x = k THEN v ELSE d[x]]

\* room_types = {getattr(r, 'room_type', '') for r in rooms}
room_types == Range(detected_rooms)

\* sum(1 for r in rooms if r.room_type in kinds)
CountRooms(kinds) ==
    Cardinality({i \in DOMAIN detected_rooms : detected_rooms[i] \in kinds})

------------------------------------------------------------------------------
\* The helpers of generate_panel_schedule.  m is the invocation's locals
\* together with rem, the dict its `remaining` refers to, and ret, the value
\* the last consume returned.

\* add() advancing next_num by one whatever the pole count
AddOneSlot(m, amps, poles, desc, wire, gfci, afci, count, watts, room) ==
    [m EXCEPT
       !.circuits = Append(@,
           [circuit_number |-> m.next_num,
            amperage       |-> amps,
            poles          |-> poles,
            description    |-> desc,
            wire_type      |-> wire,
            is_gfci        |-> gfci,
            is_afci        |-> afci,
            device_count   |-> count,
            load_watts     |-> watts,
            room           |-> room]),
       !.next_num = @ + 1]

\* add(): append a CircuitBreaker numbered next_num, advance by poles
Add(m, amps, poles, desc, wire, gfci, afci, count, watts, room) ==
    [m EXCEPT
       !.circuits = Append(@,
           [circuit_number |-> m.next_num,
            amperage       |-> amps,
            poles          |-> poles,
            description    |-> desc,
            wire_type      |-> wire,
            is_gfci        |-> gfci,
            is_afci        |-> afci,
            device_count   |-> count,
            load_watts     |-> watts,
            room           |-> room]),
       !.next_num = @ + poles]

\* consume() without the min(): takes what was asked for
TakeUnclamped(m, sym, count, omitted) ==
    LET avail == Get(m.rem, sym)
    IN  [m EXCEPT
           !.rem = Put(m.rem, sym, avail - count),
           !.ret = count,
           !.takes = Append(@, [sym |-> sym, omitted |-> omitted,
                                requested |-> count, available |-> avail,
                                actual |-> count,
                                left |-> avail - count])]

\* consume(): actual = min(count, remaining.get(sym, 0)); the take is logged
Take(m, sym, count, omitted) ==
    LET avail  == Get(m.rem, sym)
        actual == Min(count, avail)
    IN  [m EXCEPT
           !.rem = Put(m.rem, sym, avail - actual),
           !.ret = actual,
           !.takes = Append(@, [sym |-> sym, omitted |-> omitted,
                                requested |-> count, available |-> avail,
                                actual |-> actual,
                                left |-> avail - actual])]

\* consume(sym, count)
Consume(m, sym, count) == Take(m, sym, count, FALSE)

\* consume(sym): count is None, so count = remaining.get(sym, 0)
ConsumeAll(m, sym) == Take(m, sym, Get(m.rem, sym), TRUE)

\* Bookkeeping: n devices of type sym are counted on a circuit
Counted(m, sym, n) ==
    [m EXCEPT !.counted = Put(@, sym, Get(@, sym) + n)]

\* consume(s[1]) + consume(s[2]) + ...: drains each type of s in order and
\* leaves the sum in ret
RECURSIVE ConsumeEach(_, _, _, _)
ConsumeEach(m, s, i, acc) ==
    IF i > Len(s) THEN [m EXCEPT !.ret = acc]
    ELSE LET m1 == ConsumeAll(m, s[i])
         IN  ConsumeEach(m1, s, i + 1, acc + m1.ret)

\* Bookkeeping: what this rule block took of the given types is counted on
\* the circuit(s) it appended
RECURSIVE CountedTakes(_, _, _)
CountedTakes(m, types, i) ==
    IF i > Len(m.takes) THEN m
    ELSE CountedTakes(
           IF m.takes[i].sym \in types
           THEN Counted(m, m.takes[i].sym, m.takes[i].actual) ELSE m,
           types, i + 1)

\* for i in range(n): count = min(per, total - i * per); break when
\* count <= 0; add(15, 1, desc #i+1, afci=True, count, count * watts).
\* ret is the sum of the counts put on circuits.
RECURSIVE CircuitLoop(_, _, _, _, _, _, _, _, _)
CircuitLoop(m, total, per, n, i, acc, desc, watts, room) ==
    IF i >= n THEN [m EXCEPT !.ret = acc]
    ELSE LET count == Min(per, total - i * per)
         IN  IF count <= 0 THEN [m EXCEPT !.ret = acc]
             ELSE CircuitLoop(
                    Add(m, 15, 1, <<desc, i + 1>>, "14/2 NM-B", FALSE, TRUE,
                        count, count * watts, room),
                    total, per, n, i + 1, acc + count, desc, watts, room)

------------------------------------------------------------------------------
\* 1. Kitchen dedicated circuits

\* for i in range(split_count): one counter split circuit each
RECURSIVE KitchenSplits(_, _, _, _)
KitchenSplits(m, counter_gfci, split_count, i) ==
    IF i >= split_count THEN m
    ELSE LET d    == Min(PerSplit, counter_gfci - i * PerSplit)
             devs == IF d <= 0 THEN 0 ELSE d
             m1   == Consume(m, "gfci_receptacle", devs)
             n    == m1.ret
             m2   == Add(m1, 20, 1, <<"Kitchen Counter Split", i + 1>>,
                         "12/2 NM-B", TRUE, FALSE, n, n * 180, "Kitchen")
         IN  KitchenSplits(Counted(m2, "gfci_receptacle", n),
                           counter_gfci, split_count, i + 1)

\* The kitchen block splitting every GFCI receptacle of the mapping into
\* groups of three, without the cap of six
KitchenRuleUncapped(sc, m) ==
    LET kitchen_gfci == Get(sc, "gfci_receptacle")
        has_kitchen  == "kitchen" \in room_types \/ kitchen_gfci > 0
        m0 == [m EXCEPT !.has_kitchen = has_kitchen]
    IN  IF ~has_kitchen THEN m0
        ELSE
          LET counter_gfci == kitchen_gfci
              split_count  == Max(2, (counter_gfci + 2) \div PerSplit)
              m1 == KitchenSplits(m0, counter_gfci, split_count, 0)
              m2 == Consume(m1, "dedicated_receptacle", 1)
              m3 == Add(m2, 15, 1, <<"Refrigerator Dedicated", 0>>,
                        "14/2 NM-B", FALSE, FALSE, 1, 1500, "Kitchen")
              m4 == Add(m3, 15, 1, <<"Dishwasher Dedicated", 0>>,
                        "14/2 NM-B", TRUE, FALSE, 1, 1200, "Kitchen")
          IN  IF Get(sc, "range_hood_fan") > 0
              THEN Add(Consume(m4, "range_hood_fan", 1),
                       20, 1, <<"Range Hood / Microwave", 0>>,
                       "12/2 NM-B", FALSE, FALSE, 1, 1500, "Kitchen")
              ELSE m4

KitchenRule(sc, m) ==
    LET kitchen_gfci == Get(sc, "gfci_receptacle")
        has_kitchen  == "kitchen" \in room_types \/ kitchen_gfci > 0
        m0 == [m EXCEPT !.has_kitchen = has_kitchen]
    IN  IF ~has_kitchen THEN m0
        ELSE
          LET counter_gfci == Min(kitchen_gfci, KitchenGfciCap)
              split_count  == Max(2, (counter_gfci + 2) \div PerSplit)
              m1 == KitchenSplits(m0, counter_gfci, split_count, 0)
              m2 == Consume(m1, "dedicated_receptacle", 1)
              m3 == Counted(
                      Add(m2, 15, 1, <<"Refrigerator Dedicated", 0>>,
                          "14/2 NM-B", FALSE, FALSE, 1, 1500, "Kitchen"),
                      "dedicated_receptacle", 1)
              m4 == Add(m3, 15, 1, <<"Dishwasher Dedicated", 0>>,
                        "14/2 NM-B", TRUE, FALSE, 1, 1200, "Kitchen")
          IN  IF Get(sc, "range_hood_fan") > 0
              THEN Counted(
                     Add(Consume(m4, "range_hood_fan", 1),
                         20, 1, <<"Range Hood / Microwave", 0>>,
                         "12/2 NM-B", FALSE, FALSE, 1, 1500, "Kitchen"),
                     "range_hood_fan", 1)
              ELSE m4

------------------------------------------------------------------------------
\* 2. Bathroom circuit

\* The bathroom block taking every exhaust fan of the pool
BathroomRuleAllFans(sc, m) ==
    LET bathroom_count == CountRooms({"bathroom", "powder_room"})
    IN  IF bathroom_count > 0 \/ Get(sc, "exhaust_fan") > 0
        THEN
          LET m1 == ConsumeAll(m, "gfci_receptacle")
              m2 == ConsumeAll(m1, "exhaust_fan")
          IN  Add(m2, 20, 1, <<"Bathroom(s) GFCI", 1>>, "12/2 NM-B", TRUE,
                  FALSE, m1.ret + m2.ret, (m1.ret * 180) + (m2.ret * 100),
                  "Bathrooms")
        ELSE m

BathroomRule(sc, m) ==
    LET bathroom_count == CountRooms({"bathroom", "powder_room"})
    IN  IF bathroom_count > 0 \/ Get(sc, "exhaust_fan") > 0
        THEN
          LET m1 == ConsumeAll(m, "gfci_receptacle")
              bath_gfci == m1.ret
              m2 == Consume(m1, "exhaust_fan", bathroom_count)
              bath_exhaust == m2.ret
              m3 == Consume(m2, "exhaust_fan_bathroom", bathroom_count)
              m4 == Add(m3, 20, 1,
                        <<"Bathroom(s) GFCI",
                          IF bathroom_count # 0 THEN bathroom_count ELSE 1>>,
                        "12/2 NM-B", TRUE, FALSE,
                        bath_gfci + bath_exhaust,
                        (bath_gfci * 180) + (bath_exhaust * 100),
                        "Bathrooms")
          IN  Counted(Counted(m4, "gfci_receptacle", bath_gfci),
                      "exhaust_fan", bath_exhaust)
        ELSE m

------------------------------------------------------------------------------
\* 3. Laundry

\* The laundry block leaving the duplex receptacles in the pool
LaundryRuleNoTake(sc, m) ==
    IF "laundry_room" \in room_types \/ Get(sc, "dryer_outlet") > 0
    THEN
      LET m2 == Add(m, 20, 1, <<"Laundry Receptacle (dedicated)", 0>>,
                    "12/2 NM-B", FALSE, FALSE, 2, 1500, "Laundry")
          m3 == Consume(m2, "dryer_outlet", 1)
      IN  IF m3.ret # 0
          THEN Add(m3, 30, 2, <<"Dryer 240V (CEC 26-744)", 0>>,
                   "10/3 NM-B", FALSE, FALSE, 1, 5000, "Laundry")
          ELSE m3
    ELSE m

LaundryRule(sc, m) ==
    IF "laundry_room" \in room_types \/ Get(sc, "dryer_outlet") > 0
    THEN
      LET m1 == Consume(m, "duplex_receptacle", 2)
          m2 == Counted(
                  Add(m1, 20, 1, <<"Laundry Receptacle (dedicated)", 0>>,
                      "12/2 NM-B", FALSE, FALSE, 2, 1500, "Laundry"),
                  "duplex_receptacle", 2)
          m3 == Consume(m2, "dryer_outlet", 1)
      IN  IF m3.ret # 0
          THEN Counted(
                 Add(m3, 30, 2, <<"Dryer 240V (CEC 26-744)", 0>>,
                     "10/3 NM-B", FALSE, FALSE, 1, 5000, "Laundry"),
                 "dryer_outlet", 1)
          ELSE m3
    ELSE m

------------------------------------------------------------------------------
\* 4. Range / oven

\* The range circuit added for every electric range, kitchen or not
RangeRuleNoKitchen(sc, m) ==
    IF has_electric_range
    THEN Add(m, 40, 2, <<"Range/Oven 240V (CEC 26-744)", 0>>,
             "6/3 NM-B", FALSE, FALSE, 1, 8000, "Kitchen")
    ELSE m

RangeRule(sc, m) ==
    IF has_electric_range /\ m.has_kitchen
    THEN Add(m, 40, 2, <<"Range/Oven 240V (CEC 26-744)", 0>>,
             "6/3 NM-B", FALSE, FALSE, 1, 8000, "Kitchen")
    ELSE m

\* 5. A/C

AcRule(sc, m) ==
    IF has_ac
    THEN Add(m, 30, 2, <<"Central A/C 240V", 0>>,
             "10/2 NM-B", FALSE, FALSE, 1, 3600, "Exterior")
    ELSE m

\* 6. Electric heat

RECURSIVE HeatLoop(_, _, _)
HeatLoop(m, heat_circuits, i) ==
    IF i >= heat_circuits THEN m
    ELSE HeatLoop(
           Add(m, 20, 2, <<"Baseboard Heat", i + 1>>,
               "12/2 NM-B", FALSE, FALSE, 1, 3600, "Various"),
           heat_circuits, i + 1)

\* The number of heat circuits with the quotient truncated
HeatCircuitsTruncated(sqft) ==
    LET heat_watts == Max(sqft * 10, 5000)
    IN  Max(1, IntDiv(heat_watts, 3600))

\* max(1, int(heat_watts / 3600 + 0.5)) with heat_watts = max(sqft*10, 5000)
HeatCircuits(sqft) ==
    LET heat_watts == Max(sqft * 10, 5000)
    IN  Max(1, IntDiv(2 * heat_watts + 3600, 2 * 3600))

HeatRule(sc, m) ==
    IF has_electric_heat
    THEN HeatLoop(m, HeatCircuits(total_sqft), 0)
    ELSE m

\* 7. EV charger

\* The EV charger on a 60A breaker
EvRule60A(sc, m) ==
    LET m1 == ConsumeAll(m, "ev_charger")
    IN  IF m1.ret # 0
        THEN Counted(
               Add(m1, 60, 2, <<"EV Charger 240V (dedicated)", 0>>,
                   "6/3 NM-B", FALSE, FALSE, 1, 7200, "Garage"),
               "ev_charger", 1)
        ELSE m1

\* if consume("ev_charger"): add(40, 2, ...)
EvRule(sc, m) ==
    LET m1 == ConsumeAll(m, "ev_charger")
    IN  IF m1.ret # 0
        THEN Counted(
               Add(m1, 40, 2, <<"EV Charger 240V (dedicated)", 0>>,
                   "6/3 NM-B", FALSE, FALSE, 1, 7200, "Garage"),
               "ev_charger", 1)
        ELSE m1

\* 8. Garage

\* The garage block claiming every duplex receptacle of the pool
GarageRuleAll(sc, m) ==
    IF "garage" \in room_types
    THEN
      LET m1 == ConsumeAll(m, "duplex_receptacle")
      IN  Add(m1, 20, 1, <<"Garage GFCI (dedicated)", 0>>, "12/2 NM-B",
              TRUE, FALSE, m1.ret, m1.ret * 180, "Garage")
    ELSE m

GarageRule(sc, m) ==
    IF "garage" \in room_types
    THEN
      LET garage_recepts == CountRooms({"garage"}) * 3
          m1 == Consume(m, "duplex_receptacle", garage_recepts)
          n  == m1.ret
      IN  Counted(
            Add(m1, 20, 1, <<"Garage GFCI (dedicated)", 0>>,
                "12/2 NM-B", TRUE, FALSE, n, n * 180, "Garage"),
            "duplex_receptacle", n)
    ELSE m

\* 9. Outdoor

OutdoorRule(sc, m) ==
    LET m1 == ConsumeAll(m, "outdoor_receptacle")
        outdoor == m1.ret
        m2 == ConsumeAll(m1, "exterior_light")
        ext_lights == m2.ret
    IN  IF outdoor > 0 \/ ext_lights > 0
        THEN CountedTakes(
               Add(m2, 20, 1, <<"Outdoor / Exterior GFCI", 0>>,
                   "12/2 NM-B", TRUE, FALSE, outdoor + ext_lights,
                   outdoor * 180 + ext_lights * 100, "Exterior"),
               {"outdoor_receptacle", "exterior_light"}, 1)
        ELSE m2

\* 10. Smoke / CO detectors

SmokeRule(sc, m) ==
    LET m1 == ConsumeEach(m, SmokeTypes, 1, 0)
        smoke == m1.ret
    IN  IF smoke > 0
        THEN CountedTakes(
               Add(m1, 15, 1, <<"Smoke/CO Detectors (interconnected)", 0>>,
                   "14/3 NM-B", FALSE, FALSE, smoke, smoke * 5,
                   "Whole House"),
               Range(SmokeTypes), 1)
        ELSE m1

\* 11. Furnace

\* The furnace circuit left out of a dwelling with electric heat
FurnaceRuleUnlessElectricHeat(sc, m) ==
    IF has_electric_heat THEN m
    ELSE Add(m, 15, 1, <<"Furnace / Air Handler (dedicated)", 0>>,
             "14/2 NM-B", FALSE, FALSE, 1, 600, "Mechanical")

FurnaceRule(sc, m) ==
    Add(m, 15, 1, <<"Furnace / Air Handler (dedicated)", 0>>,
        "14/2 NM-B", FALSE, FALSE, 1, 600, "Mechanical")

\* 12. Doorbell / low voltage

\* The low-voltage devices put on a circuit of their own
LowVoltageOnCircuit(sc, m) ==
    LET m1 == ConsumeEach(m, LowVoltageTypes, 1, 0)
    IN  IF m1.ret > 0
        THEN Add(m1, 15, 1, <<"Low Voltage", 0>>, "14/2 NM-B", FALSE, FALSE,
                 m1.ret, m1.ret * 5, "Various")
        ELSE m1

\* consume(t) for each low-voltage type, the results dropped
LowVoltageRule(sc, m) == ConsumeEach(m, LowVoltageTypes, 1, 0)

\* 13. General lighting

\* The lighting block counting the switches among the lights
LightingRuleWithSwitches(sc, m) ==
    LET m1 == ConsumeEach(m, LightingTypes, 1, 0)
        m2 == ConsumeEach(m1, SwitchTypes, 1, 0)
        total_lights == m1.ret + m2.ret
    IN  IF total_lights > 0
        THEN
          LET light_circuits ==
                Max(1, (total_lights + MAX_PER_15A - 1) \div MAX_PER_15A)
              per_circuit ==
                (total_lights + light_circuits - 1) \div light_circuits
          IN  CircuitLoop(m2, total_lights, per_circuit, light_circuits,
                          0, 0, "General Lighting (AFCI)", 85, "Various")
        ELSE m2

LightingRule(sc, m) ==
    LET m1 == ConsumeEach(m, LightingTypes, 1, 0)
        total_lights == m1.ret
        m2 == ConsumeEach(m1, SwitchTypes, 1, 0)
    IN  IF total_lights > 0
        THEN
          LET light_circuits ==
                Max(1, (total_lights + MAX_PER_15A - 1) \div MAX_PER_15A)
              per_circuit ==
                (total_lights + light_circuits - 1) \div light_circuits
              m3 == CircuitLoop(m2, total_lights, per_circuit,
                                light_circuits, 0, 0,
                                "General Lighting (AFCI)", 85, "Various")
          IN  Counted(CountedTakes(m3, Range(LightingTypes), 1),
                      LightingTypes[1], m3.ret - total_lights)
        ELSE m2

\* 14. General receptacles

\* The receptacle block putting every receptacle left on one circuit
ReceptaclesRuleOneCircuit(sc, m) ==
    LET m1 == ConsumeEach(m, GeneralReceptacleTypes, 1, 0)
    IN  IF m1.ret > 0
        THEN Add(m1, 15, 1, <<"General Receptacles (AFCI)", 1>>,
                 "14/2 NM-B", FALSE, TRUE, m1.ret, m1.ret * 180, "Various")
        ELSE m1

ReceptaclesRule(sc, m) ==
    LET m1 == ConsumeEach(m, GeneralReceptacleTypes, 1, 0)
        gen_recepts == m1.ret
    IN  IF gen_recepts > 0
        THEN
          LET recept_circuits ==
                Max(1, (gen_recepts + MAX_PER_15A - 1) \div MAX_PER_15A)
              per_circuit ==
                (gen_recepts + recept_circuits - 1) \div recept_circuits
              bedrooms == CountRooms({"bedroom", "primary_bedroom"})
              bed_count == Min(gen_recepts \div 2, bedrooms * 4)
              bed_circuits ==
                Max(1, (bed_count + MAX_PER_15A - 1) \div MAX_PER_15A)
              m2 == IF bedrooms > 0 /\ gen_recepts > 6
                    THEN CircuitLoop(m1, bed_count, per_circuit,
                                     bed_circuits, 0, 0,
                                     "Bedroom Receptacles (AFCI)", 180,
                                     "Bedrooms")
                    ELSE [m1 EXCEPT !.ret = 0]
              in_bedrooms == m2.ret
              rest == gen_recepts - in_bedrooms
              rem_circuits ==
                Max(1, (rest + MAX_PER_15A - 1) \div MAX_PER_15A)
              per_c == (rest + rem_circuits - 1) \div rem_circuits
              m3 == IF rest > 0
                    THEN CircuitLoop(m2, rest, per_c, rem_circuits, 0, 0,
                                     "General Receptacles (AFCI)", 180,
                                     "Various")
                    ELSE [m2 EXCEPT !.ret = 0]
          IN  Counted(CountedTakes(m3, Range(GeneralReceptacleTypes), 1),
                      GeneralReceptacleTypes[1],
                      in_bedrooms + m3.ret - gen_recepts)
        ELSE m1

\* 15. Spare circuits

\* A single spare circuit
SparesRuleOne(sc, m) ==
    Add(m, 15, 1, <<"Spare", 1>>, "-", FALSE, FALSE, 0, 0, "")

\* for i in range(2): add(15, 1, f"Spare #{i+1}", wire="-")
SparesRule(sc, m) ==
    Add(Add(m, 15, 1, <<"Spare", 1>>, "-", FALSE, FALSE, 0, 0, ""),
        15, 1, <<"Spare", 2>>, "-", FALSE, FALSE, 0, 0, "")

------------------------------------------------------------------------------
\* Load calculation, panel size and schedule assembly

RECURSIVE TotalLoad(_)
TotalLoad(cs) ==
    IF cs = <<>> THEN 0 ELSE Head(cs).load_watts + TotalLoad(Tail(cs))

\* The basic load taken by amperage alone
RECURSIVE BasicLoadByAmps(_)
BasicLoadByAmps(cs) ==
    IF cs = <<>> THEN 0
    ELSE (IF Head(cs).amperage <= 20
          THEN Head(cs).load_watts ELSE 0) + BasicLoadByAmps(Tail(cs))

\* sum(c.load_watts for c in circuits if c.amperage <= 20 and c.poles == 1)
RECURSIVE BasicLoad(_)
BasicLoad(cs) ==
    IF cs = <<>> THEN 0
    ELSE (IF Head(cs).amperage <= 20 /\ Head(cs).poles = 1
          THEN Head(cs).load_watts ELSE 0) + BasicLoad(Tail(cs))

\* The large load taken by amperage alone
RECURSIVE LargeLoadByAmps(_)
LargeLoadByAmps(cs) ==
    IF cs = <<>> THEN 0
    ELSE (IF Head(cs).amperage >= 30
          THEN Head(cs).load_watts ELSE 0) + LargeLoadByAmps(Tail(cs))

\* sum(c.load_watts for c in circuits if c.poles == 2 or c.amperage >= 30)
RECURSIVE LargeLoad(_)
LargeLoad(cs) ==
    IF cs = <<>> THEN 0
    ELSE (IF Head(cs).poles = 2 \/ Head(cs).amperage >= 30
          THEN Head(cs).load_watts ELSE 0) + LargeLoad(Tail(cs))

\* len(circuits) where the sum of the poles is meant
SpacesUsedAsCircuitCount(cs) == Len(cs)

\* sum(c.poles for c in circuits)
RECURSIVE SpacesUsed(_)
SpacesUsed(cs) ==
    IF cs = <<>> THEN 0 ELSE Head(cs).poles + SpacesUsed(Tail(cs))

\* The demand with the 25% factor put on the whole basic load once it passes
\* the first block
TotalDemandFactorOnAll(basic_load, large_load) ==
    IF basic_load <= BasicBlock
    THEN basic_load + large_load
    ELSE IntDiv(basic_load + 4 * large_load, 4)

\* int(min(basic, 5000) + max(0, basic - 5000) * 0.25 + large), computed in
\* quarter watts
TotalDemand(basic_load, large_load) ==
    IntDiv(4 * Min(basic_load, BasicBlock)
             + Max(0, basic_load - BasicBlock) + 4 * large_load, 4)

\* The ladder without its 125A tier
PanelLadderTwoTiers(total_demand) ==
    IF total_demand <= 100 * Volts THEN 100 ELSE 200

\* The ladder on service_amps = total_demand / 240.0
PanelLadder(total_demand) ==
    IF total_demand <= 60 * Volts THEN 100
    ELSE IF total_demand <= 100 * Volts THEN 100
    ELSE IF total_demand <= 125 * Volts THEN 125
    ELSE 200

\* The panel size without the 200A floor
PanelLadderOnly(total_demand) == PanelLadder(total_demand)

\* Modern homes default to 200A
PanelAmps(total_demand) ==
    IF total_sqft > SqftOverride \/ has_ac \/ has_electric_heat
    THEN Max(PanelLadder(total_demand), 200)
    ELSE PanelLadder(total_demand)

SpacesTotal(panel_amps) ==
    IF panel_amps >= 200 THEN 40 ELSE IF panel_amps >= 125 THEN 30 ELSE 20

\* The unit count with every dwelling type but single taken as multi-unit
UnitCountNotSingle(dt) ==
    CASE dt = "single"   -> 1
      [] dt = "duplex"   -> 2
      [] dt = "triplex"  -> 3
      [] dt = "fourplex" -> 4
      [] OTHER           -> 2

\* {"single": 1, "duplex": 2, "triplex": 3, "fourplex": 4}.get(dt, 1)
UnitCount(dt) ==
    CASE dt = "single"   -> 1
      [] dt = "duplex"   -> 2
      [] dt = "triplex"  -> 3
      [] dt = "fourplex" -> 4
      [] OTHER           -> 1

Note(text, n1, n2, str) == [text |-> text, n1 |-> n1, n2 |-> n2, s |-> str]

\* The notes with the warning given only once no space is left
NotesWarnWhenFull(amps, load, demand, used, total) ==
    <<Note("CEC 2021 compliant - A service", amps, 0, ""),
      Note("Total connected load: W", load, 0, ""),
      Note("Calculated demand: W (A)", demand,
           RoundHalfEven(demand, Volts), "")>>
    \o (IF used >= total
        THEN <<Note("WARNING: Panel nearly full", 0, 0, "")>> ELSE <<>>)
    \o (IF UnitCount(dwelling_type) > 1
        THEN <<Note("Multi-unit: panels required",
                    UnitCount(dwelling_type), 0, dwelling_type)>>
        ELSE <<>>)

Notes(panel_amps, total_load, total_demand, spaces_used, spaces_total) ==
    <<Note("CEC 2021 compliant - A service", panel_amps, 0, ""),
      Note("Total connected load: W", total_load, 0, ""),
      Note("Calculated demand: W (A)", total_demand,
           RoundHalfEven(total_demand, Volts), "")>>
    \o (IF spaces_used > spaces_total - 4
        THEN <<Note("WARNING: Panel nearly full", 0, 0, "")>> ELSE <<>>)
    \o (IF UnitCount(dwelling_type) > 1
        THEN <<Note("Multi-unit: panels required",
                    UnitCount(dwelling_type), 0, dwelling_type)>>
        ELSE <<>>)

\* PanelSchedule(...); service_amps is the fraction num / den
Schedule(cs) ==
    LET total_load   == TotalLoad(cs)
        total_demand == TotalDemand(BasicLoad(cs), LargeLoad(cs))
        panel_amps   == PanelAmps(total_demand)
        spaces_used  == SpacesUsed(cs)
        spaces_total == SpacesTotal(panel_amps)
    IN  [panel_size_amps    |-> panel_amps,
         main_breaker_amps  |-> panel_amps,
         voltage            |-> 240,
         phases             |-> 1,
         circuits           |-> cs,
         total_load_watts   |-> total_load,
         total_demand_watts |-> total_demand,
         total_circuits     |-> Len(cs),
         spaces_used        |-> spaces_used,
         spaces_total       |-> spaces_total,
         service_amps       |-> [num |-> total_demand, den |-> Volts],
         notes              |-> Notes(panel_amps, total_load, total_demand,
                                      spaces_used, spaces_total)]

\* No PanelSchedule object exists before the call returns
NoSchedule ==
    [panel_size_amps    |-> 0,
     main_breaker_amps  |-> 0,
     voltage            |-> 0,
     phases             |-> 0,
     circuits           |-> <<>>,
     total_load_watts   |-> 0,
     total_demand_watts |-> 0,
     total_circuits     |-> 0,
     spaces_used        |-> 0,
     spaces_total       |-> 0,
     service_amps       |-> [num |-> 0, den |-> 1],
     notes              |-> <<>>]

------------------------------------------------------------------------------
\* An invocation: its locals, and the order of the rule blocks

\* The rule sequence with the general-receptacle block in the garage block's
\* place and the garage block after it
PcOrderGeneralBeforeGarage ==
    <<"kitchen", "bathroom", "laundry", "range", "ac", "heat", "ev",
      "receptacles", "outdoor", "smoke", "furnace", "low_voltage",
      "lighting", "garage", "spares", "assemble", "returned">>

PcOrder ==
    <<"kitchen", "bathroom", "laundry", "range", "ac", "heat", "ev", "garage",
      "outdoor", "smoke", "furnace", "low_voltage", "lighting", "receptacles",
      "spares", "assemble", "returned">>

\* The rule sequence leaving out the spare circuits
NextPcSkipsSpares(pc) ==
    LET i == CHOOSE j \in DOMAIN PcOrder : PcOrder[j] = pc
    IN  IF pc = "receptacles" THEN "assemble" ELSE PcOrder[i + 1]

NextPc(pc) ==
    LET i == CHOOSE j \in DOMAIN PcOrder : PcOrder[j] = pc
    IN  PcOrder[i + 1]

IdleFrame(c) ==
    [pc          |-> "idle",
     remaining   |-> c,
     circuits    |-> <<>>,
     next_num    |-> 0,
     has_kitchen |-> FALSE,
     counted     |-> EmptyDict,
     takes       |-> <<>>,
     called_with |-> EmptyDict,
     schedule    |-> NoSchedule]

\* remaining = symbol_counts: the caller's dict itself
RemainingAlias(c) == CallerObj

\* remaining = dict(symbol_counts): a new dict object, owned by the call
RemainingCopy(c) == c

\* The entry with the counter starting at 0
EnterFromZero(h, c) ==
    [h |-> [h EXCEPT ![RemainingCopy(c)] = h[CallerObj]],
     f |-> [IdleFrame(c) EXCEPT
              !.pc = "kitchen",
              !.remaining = RemainingCopy(c),
              !.next_num = 0,
              !.called_with = h[CallerObj]]]

\* circuits = []; next_num = [1]; remaining = dict(symbol_counts)
Enter(h, c) ==
    [h |-> [h EXCEPT ![RemainingCopy(c)] = h[CallerObj]],
     f |-> [IdleFrame(c) EXCEPT
              !.pc = "kitchen",
              !.remaining = RemainingCopy(c),
              !.next_num = 1,
              !.called_with = h[CallerObj]]]

\* The locals a rule block works on: the frame, the dict `remaining` refers
\* to, and the last return value of consume
Locals(h, f) ==
    [circuits    |-> f.circuits,
     next_num    |-> f.next_num,
     has_kitchen |-> f.has_kitchen,
     counted     |-> f.counted,
     takes       |-> <<>>,
     rem         |-> h[f.remaining],
     ret         |-> 0]

\* The rule block at pc, applied to the locals
Rule(pc, sc, m) ==
    CASE pc = "kitchen"     -> KitchenRule(sc, m)
      [] pc = "bathroom"    -> BathroomRule(sc, m)
      [] pc = "laundry"     -> LaundryRule(sc, m)
      [] pc = "range"       -> RangeRule(sc, m)
      [] pc = "ac"          -> AcRule(sc, m)
      [] pc = "heat"        -> HeatRule(sc, m)
      [] pc = "ev"          -> EvRule(sc, m)
      [] pc = "garage"      -> GarageRule(sc, m)
      [] pc = "outdoor"     -> OutdoorRule(sc, m)
      [] pc = "smoke"       -> SmokeRule(sc, m)
      [] pc = "furnace"     -> FurnaceRule(sc, m)
      [] pc = "low_voltage" -> LowVoltageRule(sc, m)
      [] pc = "lighting"    -> LightingRule(sc, m)
      [] pc = "receptacles" -> ReceptaclesRule(sc, m)
      [] pc = "spares"      -> SparesRule(sc, m)
      [] OTHER              -> m

\* What a rule block leaves behind: the dict `remaining` refers to, and the
\* locals
Commit(h, f, m) ==
    [h |-> [h EXCEPT ![f.remaining] = m.rem],
     f |-> [f EXCEPT !.pc = NextPc(f.pc),
                     !.circuits = m.circuits,
                     !.next_num = m.next_num,
                     !.has_kitchen = m.has_kitchen,
                     !.counted = m.counted,
                     !.takes = m.takes]]

\* The load calculation and the PanelSchedule returned
Return(h, f) ==
    [h |-> h,
     f |-> [f EXCEPT !.pc = "returned", !.takes = <<>>,
                     !.schedule = Schedule(f.circuits)]]

\* One step of an invocation on heap h: a rule block, or the assembly of the
\* schedule
StepOf(h, f) ==
    IF f.pc = "assemble" THEN Return(h, f)
    ELSE Commit(h, f, Rule(f.pc, h[CallerObj], Locals(h, f)))

\* generate_panel_schedule run from entry to return with nothing interleaved
RECURSIVE RunFrom(_, _)
RunFrom(h, f) ==
    IF f.pc = "returned" THEN f.schedule
    ELSE LET w == StepOf(h, f) IN RunFrom(w.h, w.f)

RunAlone(sc) ==
    LET w == Enter([o \in {CallerObj} \cup Calls |->
                      IF o = CallerObj THEN sc ELSE EmptyDict], "c1")
    IN  RunFrom(w.h, w.f)

------------------------------------------------------------------------------
\* Actions

Call(c) ==
    /\ frame[c].pc = "idle"
    /\ LET w == Enter(heap, c)
       IN  /\ heap' = w.h
           /\ frame' = [frame EXCEPT ![c] = w.f]
    /\ UNCHANGED <<args, edit>>

\* Call c takes the step w
Taken(c, w) ==
    /\ heap' = w.h
    /\ frame' = [frame EXCEPT ![c] = w.f]
    /\ UNCHANGED <<args, edit>>

\* The caller's mapping and the locals, as call c's next rule block sees them
SC == heap[CallerObj]
L(c) == Locals(heap, frame[c])
Done(c, m) == Commit(heap, frame[c], m)

Kitchen(c) ==
    /\ frame[c].pc = "kitchen"
    /\ Taken(c, Done(c, KitchenRule(SC, L(c))))
Bathroom(c) ==
    /\ frame[c].pc = "bathroom"
    /\ Taken(c, Done(c, BathroomRule(SC, L(c))))
Laundry(c) ==
    /\ frame[c].pc = "laundry"
    /\ Taken(c, Done(c, LaundryRule(SC, L(c))))
RangeOven(c) ==
    /\ frame[c].pc = "range"
    /\ Taken(c, Done(c, RangeRule(SC, L(c))))
AirCon(c) ==
    /\ frame[c].pc = "ac"
    /\ Taken(c, Done(c, AcRule(SC, L(c))))
Heat(c) ==
    /\ frame[c].pc = "heat"
    /\ Taken(c, Done(c, HeatRule(SC, L(c))))
EvCharger(c) ==
    /\ frame[c].pc = "ev"
    /\ Taken(c, Done(c, EvRule(SC, L(c))))
Garage(c) ==
    /\ frame[c].pc = "garage"
    /\ Taken(c, Done(c, GarageRule(SC, L(c))))
Outdoor(c) ==
    /\ frame[c].pc = "outdoor"
    /\ Taken(c, Done(c, OutdoorRule(SC, L(c))))
Smoke(c) ==
    /\ frame[c].pc = "smoke"
    /\ Taken(c, Done(c, SmokeRule(SC, L(c))))
Furnace(c) ==
    /\ frame[c].pc = "furnace"
    /\ Taken(c, Done(c, FurnaceRule(SC, L(c))))
LowVoltage(c) ==
    /\ frame[c].pc = "low_voltage"
    /\ Taken(c, Done(c, LowVoltageRule(SC, L(c))))
Lighting(c) ==
    /\ frame[c].pc = "lighting"
    /\ Taken(c, Done(c, LightingRule(SC, L(c))))
Receptacles(c) ==
    /\ frame[c].pc = "receptacles"
    /\ Taken(c, Done(c, ReceptaclesRule(SC, L(c))))
Spares(c) ==
    /\ frame[c].pc = "spares"
    /\ Taken(c, Done(c, SparesRule(SC, L(c))))
Assemble(c) ==
    /\ frame[c].pc = "assemble"
    /\ Taken(c, Return(heap, frame[c]))

Step(c) ==
    \/ Kitchen(c) \/ Bathroom(c) \/ Laundry(c) \/ RangeOven(c) \/ AirCon(c)
    \/ Heat(c) \/ EvCharger(c) \/ Garage(c) \/ Outdoor(c) \/ Smoke(c)
    \/ Furnace(c) \/ LowVoltage(c) \/ Lighting(c) \/ Receptacles(c)
    \/ Spares(c) \/ Assemble(c)

NoEdit == [kind |-> "none", sym |-> ""]

BetweenCalls ==
    /\ frame["c1"].pc = "returned"
    /\ frame["c2"].pc = "idle"
    /\ edit = NoEdit

\* The caller adds one device of type t to its mapping between two calls
Bump(t) ==
    /\ BetweenCalls
    /\ heap' = [heap EXCEPT ![CallerObj] = Put(@, t, Get(@, t) + 1)]
    /\ edit' = [kind |-> "bump", sym |-> t]
    /\ UNCHANGED <<args, frame>>

\* The caller replaces a negative or missing count by 0 between two calls
Zero(t) ==
    /\ BetweenCalls
    /\ IF t \in DOMAIN heap[CallerObj] THEN heap[CallerObj][t] < 0 ELSE TRUE
    /\ heap' = [heap EXCEPT ![CallerObj] = Put(@, t, 0)]
    /\ edit' = [kind |-> "zero", sym |-> t]
    /\ UNCHANGED <<args, frame>>

\* The caller passes another dwelling_type to the second call
Rehouse(d) ==
    /\ BetweenCalls
    /\ d # dwelling_type
    /\ dwelling_type' = d
    /\ edit' = [kind |-> "dwelling", sym |-> dwelling_type]
    /\ UNCHANGED <<heap, detected_rooms, has_electric_range, has_ac,
                   has_electric_heat, total_sqft, frame>>

------------------------------------------------------------------------------
\* The arguments of a call.  An input is the default call
\* generate_panel_schedule({}) changed by features: a device count put into
\* the mapping, a room appended, or a keyword argument given.

Feature(f, sym, n) == [f |-> f, sym |-> sym, n |-> n]

NoFeature == Feature("none", "", 0)

MaxOf(t) == IF t = "gfci_receptacle" THEN MaxGfci ELSE MaxCount

CountFeatures(lo) ==
    UNION {{Feature("count", t, n) : n \in lo..MaxOf(t)} : t \in DeviceTypes}

RoomFeatures == {Feature("room", k, 0) : k \in RoomKinds}

SqftValues == {SqftOverride, SqftOverride + 1}

FlagFeatures ==
    {Feature("has_electric_range", "", 0), Feature("has_ac", "", 1),
     Feature("has_electric_heat", "", 1)}
      \cup {Feature("total_sqft", "", v) : v \in SqftValues}
      \cup {Feature("dwelling_type", d, 0) : d \in DwellingTypes \ {"single"}}

RECURSIVE CountsIn(_, _)
CountsIn(es, i) ==
    IF i > Len(es) THEN EmptyDict
    ELSE IF es[i].f = "count"
         THEN Put(CountsIn(es, i + 1), es[i].sym, es[i].n)
         ELSE CountsIn(es, i + 1)

RECURSIVE RoomsIn(_, _)
RoomsIn(es, i) ==
    IF i > Len(es) THEN <<>>
    ELSE (IF es[i].f = "room" THEN <<es[i].sym>> ELSE <<>>)
           \o RoomsIn(es, i + 1)

Given(es, f) == \E i \in DOMAIN es : es[i].f = f

Arg(es, f) == CHOOSE e \in Range(es) : e.f = f

\* The state before any call, with the arguments es describes
InitWith(es) ==
    /\ heap = [o \in {CallerObj} \cup Calls |->
                 IF o = CallerObj THEN CountsIn(es, 1) ELSE EmptyDict]
    /\ detected_rooms = RoomsIn(es, 1)
    /\ dwelling_type =
         (IF Given(es, "dwelling_type") THEN Arg(es, "dwelling_type").sym
          ELSE "single")
    /\ has_electric_range = ~Given(es, "has_electric_range")
    /\ has_ac = Given(es, "has_ac")
    /\ has_electric_heat = Given(es, "has_electric_heat")
    /\ total_sqft =
         (IF Given(es, "total_sqft") THEN Arg(es, "total_sqft").n ELSE 0)
    /\ frame = [c \in Calls |-> IdleFrame(c)]
    /\ edit = NoEdit

\* The appliances that make up the large loads of a dwelling
ApplianceFeatures ==
    {Feature("count", "dryer_outlet", 1), Feature("count", "ev_charger", 1)}

\* Device types that share a circuit with another type
PartnerFeatures ==
    {Feature("count", t, MaxCount) :
       t \in {"exterior_light", "smoke_detector", "duplex_receptacle",
              "recessed_light"}}

\* One call on non-negative counts
Init ==
    \E e1, e2 \in CountFeatures(0) \cup RoomFeatures \cup FlagFeatures
                    \cup {NoFeature},
       e3 \in ApplianceFeatures \cup {NoFeature} :
       InitWith(<<e3, e2, e1>>)

Next == Call("c1") \/ Step("c1")

Spec == Init /\ [][Next]_vars

\* Two calls one after the other on the caller's mapping, to which the caller
\* may add a device in between
InitSeq ==
    \E e1 \in CountFeatures(0) \cup {NoFeature},
       e2 \in RoomFeatures \cup {NoFeature} :
       InitWith(<<e2, e1>>)

NextSeq ==
    \/ Call("c1")
    \/ frame["c1"].pc = "returned" /\ Call("c2")
    \/ \E c \in Calls : Step(c)
    \/ \E t \in DeviceTypes : Bump(t)

SpecSeq == InitSeq /\ [][NextSeq]_vars

\* Two calls one after the other on a mapping with a negative or missing
\* count, which the caller may replace by 0 in between
InitNeg ==
    \E e1 \in (CountFeatures(-MaxNeg) \ CountFeatures(0)) \cup {NoFeature},
       e2 \in RoomFeatures \cup PartnerFeatures \cup {NoFeature} :
       InitWith(<<e2, e1>>)

NextNeg ==
    \/ Call("c1")
    \/ frame["c1"].pc = "returned" /\ Call("c2")
    \/ \E c \in Calls : Step(c)
    \/ \E t \in DeviceTypes : Zero(t)

SpecNeg == InitNeg /\ [][NextNeg]_vars

\* Two calls on the same mapping, their rule blocks interleaved in any order
InitConc ==
    \E e1 \in CountFeatures(0) \cup {NoFeature},
       e2 \in RoomFeatures \cup {NoFeature} :
       InitWith(<<e2, e1>>)

NextConc == \E c \in Calls : Call(c) \/ Step(c)

SpecConc == InitConc /\ [][NextConc]_vars

\* Two calls one after the other that may differ in dwelling_type alone
InitDwell ==
    \E e1 \in CountFeatures(0) \cup {NoFeature},
       e2 \in RoomFeatures \cup FlagFeatures \cup {NoFeature} :
       InitWith(<<e2, e1>>)

NextDwell ==
    \/ Call("c1")
    \/ frame["c1"].pc = "returned" /\ Call("c2")
    \/ \E c \in Calls : Step(c)
    \/ \E d \in DwellingTypes : Rehouse(d)

SpecDwell == InitDwell /\ [][NextDwell]_vars

\* A furnished dwelling: a kitchen with a range hood and a laundry room with
\* a dryer
FullHouse ==
    <<Feature("room", "kitchen", 0), Feature("room", "laundry_room", 0),
      Feature("count", "range_hood_fan", 1),
      Feature("count", "dryer_outlet", 1)>>

\* A large number of general receptacles
BulkFeatures ==
    {Feature("count", "duplex_receptacle", n) : n \in {CrowdCount, OverfullCount, BulkCount}}

\* One call on a furnished dwelling, whose basic load passes the first 5000 W
InitLoad ==
    \E e1 \in CountFeatures(-MaxNeg) \cup BulkFeatures \cup {NoFeature},
       e2 \in ApplianceFeatures \cup FlagFeatures \cup {NoFeature} :
       InitWith(<<e2, e1>> \o FullHouse)

SpecLoad == InitLoad /\ [][Next]_vars

\* Floor areas around the multiples of 180 sqft, where heat_watts / 3600
\* passes a half or a whole number
HeatSqftValues ==
    {v \in UNION {{180 * k - 1, 180 * k, 180 * k + 1} :
                    k \in 0..MaxHeatHalves} : v >= 0}

\* One call with or without electric heat on a floor area
InitHeat ==
    \E e1 \in {Feature("total_sqft", "", v) : v \in HeatSqftValues},
       e2 \in {Feature("has_electric_heat", "", 1), NoFeature},
       e3 \in RoomFeatures \cup {NoFeature} :
       InitWith(<<e3, e2, e1>>)

SpecHeat == InitHeat /\ [][Next]_vars

\* One call on many receptacles or lights, a few devices of a second type,
\* and up to two rooms among garages, bedrooms and a laundry room
InitBulk ==
    \E e1 \in {Feature("count", t, n) :
                 t \in {"duplex_receptacle", "recessed_light"},
                 n \in 0..MaxBulk},
       e2 \in {Feature("count", t, n) :
                 t \in {"pendant_light", "single_pole_switch",
                        "dedicated_receptacle",
                        "weather_resistant_receptacle"},
                 n \in 1..MaxCount} \cup {NoFeature},
       e3 \in {Feature("room", k, 0) :
                 k \in {"garage", "bedroom", "laundry_room"}}
                \cup {NoFeature},
       e4 \in {Feature("room", k, 0) :
                 k \in {"garage", "bedroom", "primary_bedroom"}}
                \cup {NoFeature} :
       InitWith(<<e4, e3, e2, e1>>)

SpecBulk == InitBulk /\ [][Next]_vars

\* One call on any mapping (negative counts and keys no rule references
\* included), any room and any keyword argument; a call that has started
\* keeps running its statements until it returns
InitLive ==
    \E e1 \in CountFeatures(-MaxNeg) \cup {NoFeature},
       e2 \in RoomFeatures \cup FlagFeatures \cup {NoFeature} :
       InitWith(<<e2, e1>>)

\* The interpreter keeps running a call: the call is entered, and a call
\* that has not reached its return statement executes its next rule block
Running ==
    /\ WF_vars(Call("c1"))
    /\ ([]<>(frame["c1"].pc \in {"idle", "returned"}) \/ []<><<Next>>_vars)

SpecLive == InitLive /\ [][Next]_vars /\ Running

------------------------------------------------------------------------------
\* Properties

Returned(c) == frame[c].pc = "returned"

Started(c) == frame[c].pc # "idle"

NonNegative(d) == \A t \in DOMAIN d : d[t] >= 0

\* The sum of the pole counts of the first n circuits of cs
PolesBefore(cs, n) ==
    LET S[i \in 0..n] == IF i = 0 THEN 0 ELSE S[i - 1] + cs[i].poles
    IN  S[n]

\* C1 (as claimed): when a call on non-negative counts has returned, the
\* devices of each handled type counted on its circuits do not exceed that
\* type's input count.
C1_Conservation ==
    \A c \in Calls :
       Returned(c) /\ NonNegative(frame[c].called_with) =>
          \A t \in HandledTypes :
             Get(frame[c].counted, t) <= Get(frame[c].called_with, t)

\* C2 (as claimed): circuit numbers strictly increase along the sequence and
\* a 2-pole circuit's number plus 1 is the next circuit's number.
C2_NextIsNumberPlusOne ==
    \A c \in Calls :
       LET cs == frame[c].circuits
       IN  \A i \in 1..(Len(cs) - 1) :
              /\ cs[i].circuit_number < cs[i + 1].circuit_number
              /\ cs[i].poles = 2 =>
                   cs[i].circuit_number + 1 = cs[i + 1].circuit_number

\* C2 (amended): circuit numbers strictly increase along the sequence and a
\* 2-pole circuit's number plus 2 is the next circuit's number: it occupies
\* its own number and the one after it.
C2_NumberingMonotone ==
    \A c \in Calls :
       LET cs == frame[c].circuits
       IN  \A i \in 1..(Len(cs) - 1) :
              /\ cs[i].circuit_number < cs[i + 1].circuit_number
              /\ cs[i].poles = 2 =>
                   cs[i].circuit_number + 2 = cs[i + 1].circuit_number

\* A returned schedule holds a 2-pole circuit followed by another circuit
C2_Witness ==
    /\ Returned("c1")
    /\ \E i \in 1..(Len(frame["c1"].schedule.circuits) - 1) :
          /\ frame["c1"].schedule.circuits[i].poles = 2
          /\ frame["c1"].schedule.circuits[i + 1].circuit_number
               = frame["c1"].schedule.circuits[i].circuit_number + 2

\* C3: the first circuit appended has number 1, each circuit's number is 1
\* plus the poles of the circuits before it, and the next unused number is
\* the last circuit's number plus its pole count.
C3_NumberingByPoles ==
    \A c \in Calls :
       LET cs == frame[c].circuits
       IN  Started(c) =>
             /\ \A i \in 1..Len(cs) :
                   cs[i].circuit_number = 1 + PolesBefore(cs, i - 1)
             /\ cs # <<>> =>
                   /\ cs[1].circuit_number = 1
                   /\ frame[c].next_num
                        = cs[Len(cs)].circuit_number + cs[Len(cs)].poles

\* A 2-pole circuit has been appended after other circuits and took two
\* numbers
C3_Witness ==
    \E i \in 2..Len(frame["c1"].circuits) :
       /\ i = Len(frame["c1"].circuits)
       /\ frame["c1"].circuits[i].poles = 2
       /\ frame["c1"].circuits[i].circuit_number > 1
       /\ frame["c1"].next_num = frame["c1"].circuits[i].circuit_number + 2

\* C4: in every returned schedule spaces_used is the sum of the poles of its
\* circuits and total_circuits is their number.
C4_SpaceAccounting ==
    \A c \in Calls :
       Returned(c) =>
          LET sch == frame[c].schedule
          IN  /\ sch.spaces_used = PolesBefore(sch.circuits, Len(sch.circuits))
              /\ sch.total_circuits = Len(sch.circuits)

\* A returned schedule with 2-pole circuits: more spaces than circuits
C4_Witness ==
    /\ Returned("c1")
    /\ frame["c1"].schedule.spaces_used > frame["c1"].schedule.total_circuits
    /\ frame["c1"].schedule.total_circuits > 3

\* C5: of two calls on non-negative counts that differ only in one device
\* count, which is larger in the second, the second's total_demand_watts is
\* at least the first's.
C5_DemandMonotone ==
    /\ Returned("c1") /\ Returned("c2")
    /\ edit.kind = "bump"
    /\ NonNegative(frame["c1"].called_with)
    /\ frame["c2"].called_with
         = Put(frame["c1"].called_with, edit.sym,
               Get(frame["c1"].called_with, edit.sym) + 1)
    => frame["c2"].schedule.total_demand_watts
         >= frame["c1"].schedule.total_demand_watts

\* A dryer outlet added to a mapping that holds duplex receptacles: the
\* laundry rule now runs and takes receptacles, and the demand has grown
C5_Witness ==
    /\ Returned("c1") /\ Returned("c2")
    /\ edit = [kind |-> "bump", sym |-> "dryer_outlet"]
    /\ Get(frame["c1"].called_with, "duplex_receptacle") > 0
    /\ Get(frame["c1"].called_with, "dryer_outlet") = 0
    /\ frame["c2"].schedule.total_demand_watts
         > frame["c1"].schedule.total_demand_watts

Override == total_sqft > SqftOverride \/ has_ac \/ has_electric_heat

\* C6: panel_size_amps of every returned schedule is 100, 125 or 200 and
\* main_breaker_amps equals it; with total_sqft > 1500, has_ac or
\* has_electric_heat it is at least 200.
C6_PanelFloor ==
    \A c \in Calls :
       Returned(c) =>
          LET sch == frame[c].schedule
          IN  /\ sch.panel_size_amps \in {100, 125, 200}
              /\ sch.main_breaker_amps = sch.panel_size_amps
              /\ Override => sch.panel_size_amps >= 200

\* total_sqft > 1500 alone lifts a demand of the 100A tier to a 200A panel
C6_Witness ==
    /\ Returned("c1")
    /\ total_sqft > SqftOverride /\ ~has_ac /\ ~has_electric_heat
    /\ frame["c1"].schedule.total_demand_watts <= 100 * Volts
    /\ frame["c1"].schedule.panel_size_amps = 200

C7_TakeClamped(tk) ==
    /\ tk.actual = (IF tk.requested <= tk.available
                    THEN tk.requested ELSE tk.available)
    /\ tk.omitted => tk.actual = tk.available
    /\ 0 <= tk.actual /\ tk.actual <= tk.available
    /\ tk.left = tk.available - tk.actual

C7_PoolInRange(c) ==
    \A t \in DeviceTypes :
       /\ 0 <= Get(heap[frame[c].remaining], t)
       /\ Get(heap[frame[c].remaining], t) <= Get(frame[c].called_with, t)

\* C7: on non-negative counts every take removes min(requested, available)
\* units (all available when the count is omitted) and returns that number,
\* every pool count stays between 0 and its input count, and no step of the
\* rule sequence raises a pool count.
C7_PoolClamping ==
    /\ [](\A c \in Calls :
            Started(c) /\ NonNegative(frame[c].called_with) =>
               /\ \A i \in DOMAIN frame[c].takes :
                     C7_TakeClamped(frame[c].takes[i])
               /\ C7_PoolInRange(c))
    /\ [][\A c \in Calls :
            Started(c) /\ NonNegative(frame[c].called_with) =>
               \A t \in DeviceTypes :
                  Get(heap'[frame'[c].remaining], t)
                    <= Get(heap[frame[c].remaining], t)]_vars

\* A take that asked for more than the pool held and got what was there
C7_Witness ==
    \E i \in DOMAIN frame["c1"].takes :
       /\ frame["c1"].takes[i].requested > frame["c1"].takes[i].available
       /\ frame["c1"].takes[i].available > 0
       /\ frame["c1"].takes[i].actual = frame["c1"].takes[i].available
       /\ frame["c1"].takes[i].left = 0

\* C8 (as claimed): a schedule generated from a mapping in which a type's
\* count is negative or missing equals the schedule generated after that
\* count is set to 0, and no circuit has a negative device_count or
\* load_watts.
C8_NegativeAsZero ==
    Returned("c1") /\ Returned("c2") /\ edit.kind = "zero" =>
       /\ frame["c1"].schedule = frame["c2"].schedule
       /\ \A i \in DOMAIN frame["c1"].schedule.circuits :
             /\ frame["c1"].schedule.circuits[i].device_count >= 0
             /\ frame["c1"].schedule.circuits[i].load_watts >= 0

\* C9: a call leaves the caller's mapping as it was when called, two
\* successive calls with the same arguments return equal schedules, and each
\* call numbers its circuits from 1.
C9_CallLocal ==
    /\ \A c \in Calls :
          /\ Started(c) /\ (c = "c1" => edit = NoEdit) =>
                heap[CallerObj] = frame[c].called_with
          /\ frame[c].circuits # <<>> =>
                frame[c].circuits[1].circuit_number = 1
    /\ Returned("c1") /\ Returned("c2") /\ edit = NoEdit =>
          frame["c1"].schedule = frame["c2"].schedule

\* Two successive calls on the same mapping have returned; the first drained
\* devices from its pool
C9_Witness ==
    /\ Returned("c1") /\ Returned("c2") /\ edit = NoEdit
    /\ \E t \in DeviceTypes :
          /\ Get(heap[CallerObj], t) > 0
          /\ Get(heap[frame["c1"].remaining], t) = 0
    /\ frame["c2"].schedule.total_circuits > 3
    /\ frame["c2"].schedule.circuits[1].circuit_number = 1

\* C10: with the rule blocks of two calls on one mapping interleaved, each
\* call's pool is a dict of its own, a step of one call leaves the other
\* call's pool, circuits and counter as they were, and each call returns the
\* schedule it returns when run alone.
C10_Isolation ==
    /\ [](\A c \in Calls :
            /\ Started(c) =>
                 /\ frame[c].remaining # CallerObj
                 /\ \A d \in Calls \ {c} :
                       frame[d].remaining # frame[c].remaining
            /\ Returned(c) =>
                 frame[c].schedule = RunAlone(frame[c].called_with))
    /\ [][\A c \in Calls : \A d \in Calls \ {c} :
            frame'[c] # frame[c] =>
               /\ frame'[d] = frame[d]
               /\ heap'[frame[d].remaining] = heap[frame[d].remaining]]_vars

\* Both calls are in the middle of their rule sequences at once, each having
\* drained a different part of its own pool
C10_Witness ==
    /\ frame["c1"].pc = "receptacles"
    /\ frame["c2"].pc = "laundry"
    /\ heap[frame["c1"].remaining] # heap[frame["c2"].remaining]
    /\ heap[frame["c2"].remaining] # heap[CallerObj]
    /\ Len(frame["c1"].circuits) > Len(frame["c2"].circuits)
    /\ frame["c2"].circuits # <<>>

\* The position of a program counter value in the rule sequence
C11_Pos(pc) ==
    IF pc = "idle" THEN 0
    ELSE CHOOSE j \in DOMAIN PcOrder : PcOrder[j] = pc

C12_DwellingOf(c) ==
    IF c = "c1" /\ edit.kind = "dwelling" THEN edit.sym ELSE dwelling_type

C12_MultiUnit == [duplex |-> 2, triplex |-> 3, fourplex |-> 4]

C12_IsMultiUnitNote(n) == n.text = "Multi-unit: panels required"

\* C12: two calls that differ in dwelling_type alone return schedules equal
\* in every field but notes and equal in their first three notes; and the
\* notes of a schedule hold a multi-unit note, stating N panels, exactly when
\* dwelling_type is duplex (N = 2), triplex (N = 3) or fourplex (N = 4).
C12_DwellingOnlyInNote ==
    /\ Returned("c1") /\ Returned("c2") /\ edit.kind = "dwelling" =>
          LET s1 == frame["c1"].schedule
              s2 == frame["c2"].schedule
          IN  /\ [s1 EXCEPT !.notes = <<>>] = [s2 EXCEPT !.notes = <<>>]
              /\ SubSeq(s1.notes, 1, 3) = SubSeq(s2.notes, 1, 3)
              /\ Len(s1.notes) >= 3
    /\ \A c \in Calls :
          Returned(c) =>
             LET ns == frame[c].schedule.notes
                 dt == C12_DwellingOf(c)
             IN  IF dt \in DOMAIN C12_MultiUnit
                 THEN /\ C12_IsMultiUnitNote(ns[Len(ns)])
                      /\ ns[Len(ns)].n1 = C12_MultiUnit[dt]
                      /\ ns[Len(ns)].s = dt
                      /\ \A i \in 1..(Len(ns) - 1) :
                            ~C12_IsMultiUnitNote(ns[i])
                 ELSE \A i \in DOMAIN ns : ~C12_IsMultiUnitNote(ns[i])

\* The same arguments as a single dwelling and then as a triplex: the second
\* schedule has the same circuits and one note more
C12_Witness ==
    /\ Returned("c1") /\ Returned("c2")
    /\ edit = [kind |-> "dwelling", sym |-> "single"]
    /\ dwelling_type = "triplex"
    /\ frame["c1"].schedule.total_circuits > 3
    /\ frame["c2"].schedule.circuits = frame["c1"].schedule.circuits
    /\ Len(frame["c2"].schedule.notes) = Len(frame["c1"].schedule.notes) + 1

\* The device types that reach no circuit: the low-voltage types and the
\* keys no rule references
C13_IgnoredTypes == Range(LowVoltageTypes) \cup (DeviceTypes \ HandledTypes)

\* C13: two calls that differ only in the count of a low-voltage type or of
\* a key no rule references return equal schedules, and the low-voltage
\* block appends no circuit.
C13_IgnoredTypesNoInfluence ==
    /\ [](Returned("c1") /\ Returned("c2") /\ edit.kind = "bump"
            /\ edit.sym \in C13_IgnoredTypes
            => frame["c1"].schedule = frame["c2"].schedule)
    /\ [][\A c \in Calls :
            frame[c].pc = "low_voltage" =>
               /\ frame'[c].circuits = frame[c].circuits
               /\ frame'[c].next_num = frame[c].next_num]_vars

\* A doorbell added to a mapping with devices on circuits: the second call
\* drained it from its pool and returned the same schedule
C13_Witness ==
    /\ Returned("c1") /\ Returned("c2")
    /\ edit = [kind |-> "bump", sym |-> "doorbell"]
    /\ Get(frame["c1"].called_with, "doorbell") = 0
    /\ Get(frame["c2"].called_with, "doorbell") = 1
    /\ Get(heap[frame["c2"].remaining], "doorbell") = 0
    /\ frame["c2"].schedule.total_circuits > 3
    /\ frame["c2"].schedule = frame["c1"].schedule

\* The empty input: no rooms, every count zero or absent, no A/C, no
\* electric heat, total_sqft <= 1500
C14_EmptyInput(c) ==
    /\ detected_rooms = <<>>
    /\ \A t \in DOMAIN frame[c].called_with : frame[c].called_with[t] = 0
    /\ ~has_ac /\ ~has_electric_heat
    /\ total_sqft <= SqftOverride

\* C14: on the empty input, with or without has_electric_range, the
\* schedule holds exactly the furnace circuit (15A, 1 pole, 600 W) followed
\* by the two spares, total_load_watts is 600 and panel_size_amps is 100.
C14_EmptyInputBaseline ==
    \A c \in Calls :
       Returned(c) /\ C14_EmptyInput(c) =>
          LET sch == frame[c].schedule
              cs  == sch.circuits
          IN  /\ Len(cs) = 3
              /\ cs[1].description = <<"Furnace / Air Handler (dedicated)", 0>>
              /\ cs[1].amperage = 15 /\ cs[1].poles = 1
              /\ cs[1].load_watts = 600
              /\ cs[2].description = <<"Spare", 1>>
              /\ cs[3].description = <<"Spare", 2>>
              /\ cs[2].load_watts = 0 /\ cs[3].load_watts = 0
              /\ sch.total_load_watts = 600
              /\ sch.panel_size_amps = 100

\* The call on a mapping of zero counts, has_electric_range left at its
\* default True, has returned
C14_Witness ==
    /\ Returned("c1") /\ C14_EmptyInput("c1")
    /\ has_electric_range
    /\ "gfci_receptacle" \in DOMAIN frame["c1"].called_with
    /\ "dryer_outlet" \in DOMAIN frame["c1"].called_with
    /\ frame["c1"].schedule.total_circuits = 3

\* The sum of load_watts over the circuits of cs that satisfy Keep
C15_Sum(cs, Keep(_)) ==
    LET S[i \in 0..Len(cs)] ==
          IF i = 0 THEN 0
          ELSE S[i - 1] + (IF Keep(cs[i]) THEN cs[i].load_watts ELSE 0)
    IN  S[Len(cs)]

C15_Any(cb) == TRUE
C15_IsBasic(cb) == cb.amperage <= 20 /\ cb.poles = 1
C15_IsLarge(cb) == cb.poles = 2 \/ cb.amperage >= 30

C15_BasicOf(c) == C15_Sum(frame[c].schedule.circuits, C15_IsBasic)
C15_LargeOf(c) == C15_Sum(frame[c].schedule.circuits, C15_IsLarge)

\* C15: in every schedule total_load_watts is the sum of load_watts over all
\* circuits and total_demand_watts is the floor of
\* min(basic, 5000) + max(0, basic - 5000) / 4 + large, where basic sums the
\* circuits of at most 20A and 1 pole and large those of 2 poles or at least
\* 30A; service_amps is total_demand_watts / 240.
C15_DemandFormula ==
    \A c \in Calls :
       Returned(c) =>
          LET sch   == frame[c].schedule
              basic == C15_BasicOf(c)
              large == C15_LargeOf(c)
              \* \div rounds toward minus infinity: the floor
              floor == (4 * (IF basic <= 5000 THEN basic ELSE 5000)
                          + (IF basic > 5000 THEN basic - 5000 ELSE 0)
                          + 4 * large) \div 4
          IN  /\ sch.total_load_watts = C15_Sum(sch.circuits, C15_Any)
              /\ sch.total_demand_watts = floor
              /\ sch.service_amps.num = sch.total_demand_watts
              /\ sch.service_amps.den = 240

\* A schedule whose basic load passes 5000 W by a number of watts that is no
\* multiple of 4, with large loads beside it: the floor cuts a fraction
C15_Witness ==
    /\ Returned("c1")
    /\ C15_BasicOf("c1") > 5000
    /\ (C15_BasicOf("c1") - 5000) % 4 # 0
    /\ C15_LargeOf("c1") > 5000
    /\ frame["c1"].schedule.total_demand_watts
         < frame["c1"].schedule.total_load_watts

\* C16: without an override (total_sqft <= 1500, no A/C, no electric heat)
\* panel_size_amps is 100 for a demand of at most 24000 W, 125 above that up
\* to 30000 W and 200 above; and spaces_total is 40 for a panel of at least
\* 200A, 30 for 125A and 20 for 100A.
C16_SizingLadder ==
    \A c \in Calls :
       Returned(c) =>
          LET sch == frame[c].schedule
              dem == sch.total_demand_watts
          IN  /\ ~Override =>
                   sch.panel_size_amps =
                     (IF dem <= 24000 THEN 100
                      ELSE IF dem <= 30000 THEN 125 ELSE 200)
              /\ sch.panel_size_amps >= 200 => sch.spaces_total = 40
              /\ sch.panel_size_amps = 125 => sch.spaces_total = 30
              /\ sch.panel_size_amps = 100 => sch.spaces_total = 20

\* A demand between the two thresholds without an override: a 125A panel of
\* 30 spaces
C16_Witness ==
    /\ Returned("c1") /\ ~Override
    /\ frame["c1"].schedule.total_demand_watts > 24000
    /\ frame["c1"].schedule.total_demand_watts <= 30000
    /\ frame["c1"].schedule.panel_size_amps = 125
    /\ frame["c1"].schedule.spaces_total = 30

\* A demand above 30000 W without an override: the ladder's own 200A
C16_TopTier ==
    /\ Returned("c1") /\ ~Override
    /\ frame["c1"].schedule.total_demand_watts > 30000
    /\ frame["c1"].schedule.panel_size_amps = 200

C17_IsWarning(n) == n.text = "WARNING: Panel nearly full"

\* C17: the notes of a schedule hold the capacity warning if and only if
\* spaces_used > spaces_total - 4; they begin with the panel-size summary,
\* the total connected load and the calculated demand, in that order, the
\* warning (if any) is the fourth and the multi-unit note (if any) the last.
C17_CapacityWarning ==
    \A c \in Calls :
       Returned(c) =>
          LET sch  == frame[c].schedule
              ns   == sch.notes
              warn == sch.spaces_used > sch.spaces_total - 4
          IN  /\ Len(ns) >= 3
              /\ ns[1].text = "CEC 2021 compliant - A service"
              /\ ns[1].n1 = sch.panel_size_amps
              /\ ns[2].text = "Total connected load: W"
              /\ ns[2].n1 = sch.total_load_watts
              /\ ns[3].text = "Calculated demand: W (A)"
              /\ ns[3].n1 = sch.total_demand_watts
              /\ warn <=> \E i \in DOMAIN ns : C17_IsWarning(ns[i])
              /\ \A i \in DOMAIN ns : C17_IsWarning(ns[i]) => i = 4
              /\ \A i \in DOMAIN ns :
                    C12_IsMultiUnitNote(ns[i]) =>
                       i = Len(ns) /\ i = (IF warn THEN 5 ELSE 4)
              /\ Len(ns) <= 5

\* A crowded 100A panel of a duplex: 17 or more of its 20 spaces used, the
\* warning fourth and the multi-unit note fifth
C17_Witness ==
    /\ Returned("c1")
    /\ frame["c1"].schedule.spaces_total = 20
    /\ frame["c1"].schedule.spaces_used > 16
    /\ Len(frame["c1"].schedule.notes) = 5
    /\ C17_IsWarning(frame["c1"].schedule.notes[4])
    /\ C12_IsMultiUnitNote(frame["c1"].schedule.notes[5])

C18_Amperages == {15, 20, 30, 40, 50}

\* C18: every circuit of a call on non-negative counts has an amperage of
\* 15, 20, 30, 40 or 50, 1 or 2 poles, a positive circuit number and a
\* non-negative device_count and load_watts.
C18_CircuitDomains ==
    \A c \in Calls :
       NonNegative(frame[c].called_with) =>
          \A i \in DOMAIN frame[c].circuits :
             LET cb == frame[c].circuits[i]
             IN  /\ cb.amperage \in C18_Amperages
                 /\ cb.poles \in {1, 2}
                 /\ cb.circuit_number > 0
                 /\ cb.device_count >= 0
                 /\ cb.load_watts >= 0

\* A returned schedule with circuits of 15, 20, 30 and 40 amperes, of one
\* and of two poles, one of them serving no device
C18_Witness ==
    /\ Returned("c1")
    /\ NonNegative(frame["c1"].called_with)
    /\ {15, 20, 30, 40}
         \subseteq {frame["c1"].schedule.circuits[i].amperage :
                      i \in DOMAIN frame["c1"].schedule.circuits}
    /\ \E i \in DOMAIN frame["c1"].schedule.circuits :
          /\ frame["c1"].schedule.circuits[i].poles = 2
          /\ frame["c1"].schedule.circuits[i].circuit_number > 1
    /\ \E i \in DOMAIN frame["c1"].schedule.circuits :
          /\ frame["c1"].schedule.circuits[i].amperage = 20
          /\ frame["c1"].schedule.circuits[i].device_count = 0

\* The rule block a circuit belongs to, by its description
C19_Block(cb) ==
    LET text == cb.description[1]
    IN  CASE text \in {"Kitchen Counter Split", "Refrigerator Dedicated",
                       "Dishwasher Dedicated", "Range Hood / Microwave"} -> 1
          [] text = "Bathroom(s) GFCI" -> 2
          [] text \in {"Laundry Receptacle (dedicated)",
                       "Dryer 240V (CEC 26-744)"} -> 3
          [] text = "Range/Oven 240V (CEC 26-744)" -> 4
          [] text = "Central A/C 240V" -> 5
          [] text = "Baseboard Heat" -> 6
          [] text = "EV Charger 240V (dedicated)" -> 7
          [] text = "Garage GFCI (dedicated)" -> 8
          [] text = "Outdoor / Exterior GFCI" -> 9
          [] text = "Smoke/CO Detectors (interconnected)" -> 10
          [] text = "Furnace / Air Handler (dedicated)" -> 11
          [] text = "General Lighting (AFCI)" -> 13
          [] text \in {"Bedroom Receptacles (AFCI)",
                       "General Receptacles (AFCI)"} -> 14
          [] text = "Spare" -> 15
          [] OTHER -> 0

C19_DeviceCount(cs) ==
    LET S[i \in 0..Len(cs)] ==
          IF i = 0 THEN 0 ELSE S[i - 1] + cs[i].device_count
    IN  S[Len(cs)]

C19_Less(a, b) == IF a <= b THEN a ELSE b

\* What the kitchen, bathroom, laundry and garage rules leave of the input
\* count of receptacle type t, on non-negative counts
C19_LeftOf(inp, t) ==
    LET n == Get(inp, t)
        kitchen  == "kitchen" \in room_types \/ Get(inp, "gfci_receptacle") > 0
        bathroom == CountRooms({"bathroom", "powder_room"}) > 0
                      \/ Get(inp, "exhaust_fan") > 0
        laundry  == "laundry_room" \in room_types
                      \/ Get(inp, "dryer_outlet") > 0
        garages  == CountRooms({"garage"})
    IN  CASE t = "gfci_receptacle" ->
               IF bathroom THEN 0
               ELSE IF kitchen THEN n - C19_Less(n, 6) ELSE n
          [] t = "dedicated_receptacle" ->
               IF kitchen THEN n - C19_Less(n, 1) ELSE n
          [] t = "duplex_receptacle" ->
               LET d1 == IF laundry THEN n - C19_Less(n, 2) ELSE n
               IN  d1 - C19_Less(d1, 3 * garages)
          [] OTHER -> n

\* C19: the circuits of a schedule appear in the order of the rule blocks
\* (kitchen, bathroom, laundry, range, A/C, heat, EV charger, garage,
\* outdoor, life safety, furnace, lighting, receptacles, spares), each
\* appended by the block it belongs to; and the general-receptacle block
\* finds in the pool what the kitchen, bathroom, laundry and garage rules
\* left of the duplex, GFCI, weather-resistant and dedicated receptacles,
\* puts exactly those on its circuits and leaves none.
C19_RuleOrder ==
    /\ [](\A c \in Calls :
            /\ \A i, j \in DOMAIN frame[c].circuits :
                  i < j => C19_Block(frame[c].circuits[i])
                             <= C19_Block(frame[c].circuits[j])
            /\ frame[c].pc = "receptacles"
                  /\ NonNegative(frame[c].called_with) =>
                  \A t \in Range(GeneralReceptacleTypes) :
                     Get(heap[frame[c].remaining], t)
                       = C19_LeftOf(frame[c].called_with, t))
    /\ [][\A c \in Calls :
            LET old == frame[c].circuits
                new == SubSeq(frame'[c].circuits, Len(old) + 1,
                              Len(frame'[c].circuits))
            IN  /\ \A i \in DOMAIN new :
                      C19_Block(new[i]) = C11_Pos(frame[c].pc)
                /\ frame[c].pc = "receptacles"
                      /\ NonNegative(frame[c].called_with) =>
                      /\ C19_DeviceCount(new)
                           = C19_DeviceCount(
                               [i \in 1..4 |->
                                  [device_count |->
                                     Get(heap[frame[c].remaining],
                                         GeneralReceptacleTypes[i])]])
                      /\ \A t \in Range(GeneralReceptacleTypes) :
                            Get(heap'[frame[c].remaining], t) = 0]_vars

\* Three duplex receptacles in a dwelling with a laundry room: the laundry
\* rule took two and the general-receptacle circuit serves the one left
C19_Witness ==
    /\ Returned("c1")
    /\ Get(frame["c1"].called_with, "duplex_receptacle") = 3
    /\ "laundry_room" \in room_types
    /\ \E i, j \in DOMAIN frame["c1"].schedule.circuits :
          /\ i < j
          /\ C19_Block(frame["c1"].schedule.circuits[i]) = 3
          /\ C19_Block(frame["c1"].schedule.circuits[j]) = 14
          /\ frame["c1"].schedule.circuits[j].device_count = 1

\* The kitchen circuits the claim names for g GFCI receptacles, as
\* <<description, amperage, poles, GFCI, device_count, load_watts>>
C20_Expected(g, hood) ==
    LET first  == IF g <= 3 THEN g ELSE 3
        rest   == IF g - 3 >= 0 THEN g - 3 ELSE 0
        second == IF rest <= 3 THEN rest ELSE 3
    IN  <<<<"Kitchen Counter Split", 20, 1, TRUE, first, first * 180>>,
          <<"Kitchen Counter Split", 20, 1, TRUE, second, second * 180>>,
          <<"Refrigerator Dedicated", 15, 1, FALSE, 1, 1500>>,
          <<"Dishwasher Dedicated", 15, 1, TRUE, 1, 1200>>>>
        \o (IF hood
            THEN <<<<"Range Hood / Microwave", 20, 1, FALSE, 1, 1500>>>>
            ELSE <<>>)

C20_Shape(cb) ==
    <<cb.description[1], cb.amperage, cb.poles, cb.is_gfci, cb.device_count,
      cb.load_watts>>

\* C20: the kitchen block appends circuits if and only if a kitchen room
\* exists or the input gfci_receptacle count g is positive; it then appends
\* two 20A 1-pole GFCI counter-split circuits serving min(3, g) and
\* min(3, max(0, g - 3)) receptacles at 180 W each, a 15A refrigerator
\* circuit of 1500 W (taking at most one dedicated_receptacle from the
\* pool), a 15A GFCI dishwasher circuit of 1200 W counting one device, and a
\* 20A range-hood circuit of 1500 W exactly when range_hood_fan > 0.
C20_KitchenRule ==
    [][\A c \in Calls :
         frame[c].pc = "kitchen" /\ frame'[c].pc # "kitchen" =>
            LET inp  == frame[c].called_with
                g    == Get(inp, "gfci_receptacle")
                ded  == Get(inp, "dedicated_receptacle")
                runs == "kitchen" \in room_types \/ g > 0
                new  == frame'[c].circuits
                pool == heap'[frame[c].remaining]
            IN  IF runs
                THEN /\ [i \in DOMAIN new |-> C20_Shape(new[i])]
                          = C20_Expected(g, Get(inp, "range_hood_fan") > 0)
                     /\ Get(pool, "dedicated_receptacle") <= ded
                     /\ Get(pool, "dedicated_receptacle") >= ded - 1
                     /\ ded >= 1 => Get(pool, "dedicated_receptacle") = ded - 1
                ELSE /\ new = <<>>
                     /\ pool = inp]_vars

\* The kitchen block has run on four GFCI receptacles and a range hood: the
\* splits serve three and one, and the range-hood circuit is the fifth
C20_Witness ==
    /\ frame["c1"].pc = "bathroom"
    /\ Get(frame["c1"].called_with, "gfci_receptacle") = 4
    /\ Len(frame["c1"].circuits) = 5
    /\ frame["c1"].circuits[1].device_count = 3
    /\ frame["c1"].circuits[2].device_count = 1
    /\ frame["c1"].circuits[5].description = <<"Range Hood / Microwave", 0>>

\* The cap of six: with seven GFCI receptacles the two splits serve three
\* each and one receptacle stays in the pool
C20_Capped ==
    /\ frame["c1"].pc = "bathroom"
    /\ Get(frame["c1"].called_with, "gfci_receptacle") = 7
    /\ Len(frame["c1"].circuits) = 4
    /\ Get(heap[frame["c1"].remaining], "gfci_receptacle") = 1

------------------------------------------------------------------------------
\* A step of call c: the circuits it appends, and the pool before and after

Appended(c) ==
    SubSeq(frame'[c].circuits, Len(frame[c].circuits) + 1,
           Len(frame'[c].circuits))

PoolBefore(c) == heap[frame[c].remaining]

PoolAfter(c) == heap'[frame[c].remaining]

\* Call c runs the rule block at pc on non-negative counts
Runs(c, pc) ==
    /\ frame[c].pc = pc
    /\ frame'[c].pc # pc
    /\ NonNegative(frame[c].called_with)

\* <<description, amperage, poles, GFCI, AFCI, device_count, load_watts>>
Shape(cb) ==
    <<cb.description[1], cb.amperage, cb.poles, cb.is_gfci, cb.is_afci,
      cb.device_count, cb.load_watts>>

\* C21: the bathroom block appends one 20A 1-pole GFCI circuit if and only
\* if a bathroom or powder room exists or exhaust_fan > 0; the circuit takes
\* every GFCI receptacle the kitchen rule left and min(exhaust_fan,
\* bathroom count) exhaust fans, counts gfci + exhaust devices and loads
\* gfci * 180 + exhaust * 100 W, and leaves no GFCI receptacle in the pool.
C21_BathroomRule ==
    [][\A c \in Calls :
         Runs(c, "bathroom") =>
            LET inp   == frame[c].called_with
                baths == CountRooms({"bathroom", "powder_room"})
                fans  == Get(inp, "exhaust_fan")
                gfci  == Get(PoolBefore(c), "gfci_receptacle")
                taken == IF fans <= baths THEN fans ELSE baths
            IN  IF baths > 0 \/ fans > 0
                THEN /\ Len(Appended(c)) = 1
                     /\ Shape(Appended(c)[1])
                          = <<"Bathroom(s) GFCI", 20, 1, TRUE, FALSE,
                              gfci + taken, gfci * 180 + taken * 100>>
                     /\ Get(PoolAfter(c), "gfci_receptacle") = 0
                     /\ Get(PoolAfter(c), "exhaust_fan") = fans - taken
                ELSE /\ Appended(c) = <<>>
                     /\ PoolAfter(c) = PoolBefore(c)]_vars

\* Seven GFCI receptacles in a dwelling with a bathroom: the kitchen rule
\* took six and the bathroom circuit serves the seventh
C21_Witness ==
    /\ frame["c1"].pc = "laundry"
    /\ Get(frame["c1"].called_with, "gfci_receptacle") = 7
    /\ CountRooms({"bathroom", "powder_room"}) = 1
    /\ Len(frame["c1"].circuits) = 5
    /\ frame["c1"].circuits[5].description[1] = "Bathroom(s) GFCI"
    /\ frame["c1"].circuits[5].device_count = 1
    /\ Get(heap[frame["c1"].remaining], "gfci_receptacle") = 0

\* More exhaust fans than bathrooms: one fan per bathroom is taken
C21_FansCapped ==
    /\ frame["c1"].pc = "laundry"
    /\ Get(frame["c1"].called_with, "exhaust_fan") = 3
    /\ CountRooms({"bathroom", "powder_room"}) = 1
    /\ Get(heap[frame["c1"].remaining], "exhaust_fan") = 2

\* C22: the laundry block appends circuits if and only if a laundry room
\* exists or dryer_outlet > 0: a 20A 1-pole laundry circuit of 1500 W, which
\* removes min(2, available) duplex receptacles from the pool, followed by a
\* 30A 2-pole dryer circuit of one device and 5000 W if and only if
\* dryer_outlet > 0, which removes one dryer_outlet from the pool.
C22_LaundryRule ==
    [][\A c \in Calls :
         Runs(c, "laundry") =>
            LET inp    == frame[c].called_with
                dryers == Get(inp, "dryer_outlet")
                duplex == Get(PoolBefore(c), "duplex_receptacle")
                new    == Appended(c)
            IN  IF "laundry_room" \in room_types \/ dryers > 0
                THEN /\ Len(new) = (IF dryers > 0 THEN 2 ELSE 1)
                     /\ new[1].description[1]
                          = "Laundry Receptacle (dedicated)"
                     /\ new[1].amperage = 20 /\ new[1].poles = 1
                     /\ new[1].load_watts = 1500
                     /\ Get(PoolAfter(c), "duplex_receptacle")
                          = duplex - (IF duplex >= 2 THEN 2 ELSE duplex)
                     /\ dryers > 0 =>
                          /\ Shape(new[2])
                               = <<"Dryer 240V (CEC 26-744)", 30, 2, FALSE,
                                   FALSE, 1, 5000>>
                          /\ Get(PoolAfter(c), "dryer_outlet") = dryers - 1
                ELSE /\ new = <<>>
                     /\ PoolAfter(c) = PoolBefore(c)]_vars

\* A dryer outlet and a single duplex receptacle: the laundry circuit took
\* the one receptacle there was and the dryer circuit follows it
C22_Witness ==
    /\ frame["c1"].pc = "range"
    /\ Get(frame["c1"].called_with, "duplex_receptacle") = 1
    /\ Get(frame["c1"].called_with, "dryer_outlet") = 1
    /\ Get(heap[frame["c1"].remaining], "duplex_receptacle") = 0
    /\ Get(heap[frame["c1"].remaining], "dryer_outlet") = 0
    /\ Len(frame["c1"].circuits) = 2
    /\ frame["c1"].circuits[2].poles = 2

\* C23: the range block appends one 40A 2-pole circuit of 8000 W if and
\* only if has_electric_range is true and a kitchen room exists or the input
\* gfci_receptacle count is positive; it leaves every pool count unchanged.
C23_RangeRule ==
    [][\A c \in Calls :
         Runs(c, "range") =>
            LET kitchen == \/ "kitchen" \in room_types
                           \/ Get(frame[c].called_with, "gfci_receptacle") > 0
            IN  /\ PoolAfter(c) = PoolBefore(c)
                /\ IF has_electric_range /\ kitchen
                   THEN /\ Len(Appended(c)) = 1
                        /\ Shape(Appended(c)[1])
                             = <<"Range/Oven 240V (CEC 26-744)", 40, 2,
                                 FALSE, FALSE, 1, 8000>>
                   ELSE Appended(c) = <<>>]_vars

\* A range circuit in a dwelling with no kitchen room: the GFCI receptacles
\* of the mapping make the kitchen context
C23_Witness ==
    /\ frame["c1"].pc = "ac"
    /\ "kitchen" \notin room_types
    /\ Get(frame["c1"].called_with, "gfci_receptacle") > 0
    /\ frame["c1"].circuits # <<>>
    /\ frame["c1"].circuits[Len(frame["c1"].circuits)].amperage = 40
    /\ Get(heap[frame["c1"].remaining], "gfci_receptacle") > 0

\* An electric range without a kitchen context gets no circuit
C23_NoKitchen ==
    /\ frame["c1"].pc = "ac"
    /\ has_electric_range
    /\ frame["c1"].circuits = <<>>
    /\ Get(frame["c1"].called_with, "duplex_receptacle") > 0

\* The integer nearest to n / d, a half rounded up
C24_Nearest(n, d) ==
    CHOOSE q \in 0..(n \div d + 1) :
       /\ 2 * n >= 2 * d * q - d
       /\ 2 * n < 2 * d * q + d

\* C24: with has_electric_heat the heat block appends
\* max(1, round(max(total_sqft * 10, 5000) / 3600)) circuits, a half rounded
\* up, each 20A, 2 poles, 3600 W; without it none; the pool is unchanged.
C24_HeatRule ==
    [][\A c \in Calls :
         Runs(c, "heat") =>
            LET watts == IF total_sqft * 10 >= 5000
                         THEN total_sqft * 10 ELSE 5000
                q     == C24_Nearest(watts, 3600)
                n     == IF q >= 1 THEN q ELSE 1
                new   == Appended(c)
            IN  /\ PoolAfter(c) = PoolBefore(c)
                /\ IF has_electric_heat
                   THEN /\ Len(new) = n
                        /\ \A i \in DOMAIN new :
                              Shape(new[i]) = <<"Baseboard Heat", 20, 2,
                                                FALSE, FALSE, 1, 3600>>
                   ELSE new = <<>>]_vars

\* A floor area whose heat_watts / 3600 ends in a half above 2: rounded up
C24_Witness ==
    /\ frame["c1"].pc = "ev"
    /\ has_electric_heat
    /\ (total_sqft * 10) % 3600 = 1800
    /\ total_sqft * 10 > 2 * 3600
    /\ \E i \in DOMAIN frame["c1"].circuits :
          /\ i = Len(frame["c1"].circuits)
          /\ frame["c1"].circuits[i].description
               = <<"Baseboard Heat", (total_sqft * 10 + 1800) \div 3600>>

\* A floor area below 500 sqft: the 5000 W floor gives one circuit
C24_Floor ==
    /\ frame["c1"].pc = "ev"
    /\ has_electric_heat
    /\ total_sqft * 10 < 5000
    /\ \E i \in DOMAIN frame["c1"].circuits :
          /\ i = Len(frame["c1"].circuits)
          /\ frame["c1"].circuits[i].description = <<"Baseboard Heat", 1>>

\* C25: the garage block appends one 20A 1-pole GFCI circuit if and only if
\* a garage room exists; it serves n = min(3 * garage rooms, duplex
\* receptacles left by the laundry rule) devices at 180 W each and removes n
\* duplex receptacles from the pool.
C25_GarageRule ==
    [][\A c \in Calls :
         Runs(c, "garage") =>
            LET inp     == Get(frame[c].called_with, "duplex_receptacle")
                laundry == \/ "laundry_room" \in room_types
                           \/ Get(frame[c].called_with, "dryer_outlet") > 0
                left    == IF laundry
                           THEN inp - (IF inp >= 2 THEN 2 ELSE inp)
                           ELSE inp
                garages == CountRooms({"garage"})
                n       == IF 3 * garages <= left THEN 3 * garages ELSE left
            IN  /\ Get(PoolBefore(c), "duplex_receptacle") = left
                /\ IF garages >= 1
                   THEN /\ Len(Appended(c)) = 1
                        /\ Shape(Appended(c)[1])
                             = <<"Garage GFCI (dedicated)", 20, 1, TRUE,
                                 FALSE, n, n * 180>>
                        /\ PoolAfter(c)
                             = Put(PoolBefore(c), "duplex_receptacle",
                                   left - n)
                   ELSE /\ Appended(c) = <<>>
                        /\ PoolAfter(c) = PoolBefore(c)]_vars

\* Two garages and more than six duplex receptacles: the garage circuit
\* serves six and the rest stays in the pool
C25_Witness ==
    /\ frame["c1"].pc = "outdoor"
    /\ CountRooms({"garage"}) = 2
    /\ Get(frame["c1"].called_with, "duplex_receptacle") > 6
    /\ frame["c1"].circuits[Len(frame["c1"].circuits)].device_count = 6
    /\ Get(heap[frame["c1"].remaining], "duplex_receptacle")
         = Get(frame["c1"].called_with, "duplex_receptacle") - 6

\* A garage and a laundry room sharing four duplex receptacles: the laundry
\* rule took two and the garage circuit serves the two left
C25_AfterLaundry ==
    /\ frame["c1"].pc = "outdoor"
    /\ CountRooms({"garage"}) = 1
    /\ "laundry_room" \in room_types
    /\ Get(frame["c1"].called_with, "duplex_receptacle") = 4
    /\ frame["c1"].circuits[Len(frame["c1"].circuits)].device_count = 2

\* The sum of the counts of the types of s in the mapping d
SumOf(d, s) ==
    LET S[i \in 0..Len(s)] == IF i = 0 THEN 0 ELSE S[i - 1] + Get(d, s[i])
    IN  S[Len(s)]

\* C26: for a total L > 0 of lighting devices the lighting block appends
\* ceil(L / 12) circuits, each 15A 1-pole AFCI with 1 to 12 devices at 85 W
\* each, whose device counts sum to L, split evenly (the last circuit takes
\* the rest); for L = 0 it appends none; the switches and occupancy sensors
\* of the mapping have no part in it.
C26_LightingPartition ==
    [][\A c \in Calls :
         Runs(c, "lighting") =>
            LET lights == SumOf(frame[c].called_with, LightingTypes)
                n   == (lights + 11) \div 12
                new == Appended(c)
            IN  IF lights > 0
                THEN LET per == (lights + n - 1) \div n
                     IN  /\ Len(new) = n
                         /\ C19_DeviceCount(new) = lights
                         /\ \A i \in DOMAIN new :
                               /\ new[i].device_count >= 1
                               /\ new[i].device_count <= 12
                               /\ new[i].device_count
                                    = (IF i < n THEN per
                                       ELSE lights - (n - 1) * per)
                               /\ Shape(new[i])
                                    = <<"General Lighting (AFCI)", 15, 1,
                                        FALSE, TRUE, new[i].device_count,
                                        new[i].device_count * 85>>
                ELSE new = <<>>]_vars

\* 25 lights and some switches: three circuits of 9, 9 and 7 devices
C26_Witness ==
    /\ frame["c1"].pc = "receptacles"
    /\ SumOf(frame["c1"].called_with, LightingTypes) = 25
    /\ SumOf(frame["c1"].called_with, SwitchTypes) > 0
    /\ Len(frame["c1"].circuits) = 4
    /\ frame["c1"].circuits[2].device_count = 9
    /\ frame["c1"].circuits[3].device_count = 9
    /\ frame["c1"].circuits[4].device_count = 7

\* Lights of two types add up: 24 recessed and 3 pendant lights on three
\* circuits of 9
C26_TwoTypes ==
    /\ frame["c1"].pc = "receptacles"
    /\ Get(frame["c1"].called_with, "recessed_light") = 24
    /\ Get(frame["c1"].called_with, "pendant_light") = 3
    /\ Len(frame["c1"].circuits) = 4
    /\ frame["c1"].circuits[4].device_count = 9

C27_IsBedroom(cb) == cb.description[1] = "Bedroom Receptacles (AFCI)"

\* The circuits of cs that are bedroom circuits, their other fields dropped
C27_BedroomCounts(cs) ==
    [i \in DOMAIN cs |->
       [device_count |->
          IF C27_IsBedroom(cs[i]) THEN cs[i].device_count ELSE 0]]

\* C27: with S the sum of the duplex, GFCI, weather-resistant and dedicated
\* receptacles in the pool at the receptacle block, the device counts of the
\* bedroom and general receptacle circuits it appends sum to S; each is a
\* 15A 1-pole AFCI circuit of 1 to 12 devices at 180 W each; bedroom
\* circuits exist only with a bedroom or primary bedroom and S > 6, and
\* serve at most min(floor(S / 2), 4 * bedrooms) devices together.
C27_ReceptaclePartition ==
    [][\A c \in Calls :
         Runs(c, "receptacles") =>
            LET total    == SumOf(PoolBefore(c), GeneralReceptacleTypes)
                bedrooms == CountRooms({"bedroom", "primary_bedroom"})
                new      == Appended(c)
                in_beds  == C19_DeviceCount(C27_BedroomCounts(new))
            IN  /\ C19_DeviceCount(new) = total
                /\ \A i \in DOMAIN new :
                      /\ new[i].description[1]
                           \in {"Bedroom Receptacles (AFCI)",
                                "General Receptacles (AFCI)"}
                      /\ new[i].device_count >= 1
                      /\ new[i].device_count <= 12
                      /\ Shape(new[i])
                           = <<new[i].description[1], 15, 1, FALSE, TRUE,
                               new[i].device_count,
                               new[i].device_count * 180>>
                /\ (\E i \in DOMAIN new : C27_IsBedroom(new[i])) =>
                      bedrooms >= 1 /\ total > 6
                /\ in_beds <= total \div 2
                /\ in_beds <= 4 * bedrooms]_vars

\* Two bedrooms and more than 24 receptacles: a bedroom circuit of eight
\* devices followed by general circuits for the rest
C27_Witness ==
    /\ frame["c1"].pc = "spares"
    /\ CountRooms({"bedroom", "primary_bedroom"}) = 2
    /\ SumOf(frame["c1"].called_with, GeneralReceptacleTypes) > 24
    /\ \E i \in DOMAIN frame["c1"].circuits :
          /\ C27_IsBedroom(frame["c1"].circuits[i])
          /\ frame["c1"].circuits[i].device_count = 8
          /\ Len(frame["c1"].circuits) >= i + 2

\* Six receptacles in a dwelling with a bedroom: no bedroom circuit
C27_AtSix ==
    /\ frame["c1"].pc = "spares"
    /\ CountRooms({"bedroom", "primary_bedroom"}) >= 1
    /\ SumOf(frame["c1"].called_with, GeneralReceptacleTypes) = 6
    /\ Len(frame["c1"].circuits) = 2
    /\ ~C27_IsBedroom(frame["c1"].circuits[2])

\* C28: every schedule holds exactly one furnace circuit (15A, 1 pole,
\* 600 W, one device) and exactly two spare circuits (15A, 1 pole, no
\* device, 0 W), and the spares are its last two circuits.
C28_FurnaceAndSpares ==
    \A c \in Calls :
       Returned(c) =>
          LET cs == frame[c].schedule.circuits
              furnaces == {i \in DOMAIN cs : C19_Block(cs[i]) = 11}
              spares   == {i \in DOMAIN cs : C19_Block(cs[i]) = 15}
          IN  /\ Cardinality(furnaces) = 1
              /\ \A i \in furnaces :
                    Shape(cs[i]) = <<"Furnace / Air Handler (dedicated)",
                                     15, 1, FALSE, FALSE, 1, 600>>
              /\ spares = {Len(cs) - 1, Len(cs)}
              /\ Len(cs) >= 3
              /\ \A i \in spares :
                    Shape(cs[i]) = <<"Spare", 15, 1, FALSE, FALSE, 0, 0>>

\* A schedule of a dwelling with electric heat: baseboard circuits, then
\* the furnace circuit, then the two spares
C28_Witness ==
    /\ Returned("c1")
    /\ has_electric_heat
    /\ Len(frame["c1"].schedule.circuits) >= 4
    /\ C19_Block(frame["c1"].schedule.circuits[1]) = 6
    /\ \E i \in DOMAIN frame["c1"].schedule.circuits :
          C19_Block(frame["c1"].schedule.circuits[i]) = 11

\* C29: every circuit of a schedule is counted in exactly one of the basic
\* load (at most 20A and 1 pole) and the large load (2 poles or at least
\* 30A), so the two add up to total_load_watts; on non-negative counts
\* total_demand_watts is at most total_load_watts, and equal to it when the
\* basic load is at most 5000 W.
C29_DemandWithinLoad ==
    \A c \in Calls :
       Returned(c) =>
          LET sch == frame[c].schedule
          IN  /\ \A i \in DOMAIN sch.circuits :
                    C15_IsBasic(sch.circuits[i])
                      <=> ~C15_IsLarge(sch.circuits[i])
              /\ C15_BasicOf(c) + C15_LargeOf(c) = sch.total_load_watts
              /\ NonNegative(frame[c].called_with) =>
                    /\ sch.total_demand_watts <= sch.total_load_watts
                    /\ C15_BasicOf(c) <= 5000 =>
                          sch.total_demand_watts = sch.total_load_watts

\* A schedule with 20A 2-pole baseboard circuits, which count as large
\* loads, and a basic load above 5000 W: the demand is below the load
C29_Witness ==
    /\ Returned("c1")
    /\ NonNegative(frame["c1"].called_with)
    /\ \E i \in DOMAIN frame["c1"].schedule.circuits :
          /\ frame["c1"].schedule.circuits[i].amperage = 20
          /\ frame["c1"].schedule.circuits[i].poles = 2
    /\ C15_BasicOf("c1") > 5000
    /\ frame["c1"].schedule.total_demand_watts
         < frame["c1"].schedule.total_load_watts

\* A schedule with large loads whose basic load is at most 5000 W: the
\* demand is the load
C29_Equal ==
    /\ Returned("c1")
    /\ NonNegative(frame["c1"].called_with)
    /\ C15_BasicOf("c1") <= 5000
    /\ C15_BasicOf("c1") > 4000
    /\ C15_LargeOf("c1") > 15000
    /\ frame["c1"].schedule.total_demand_watts
         = frame["c1"].schedule.total_load_watts

\* C30 (as claimed): in every returned schedule spaces_used is at most
\* spaces_total.
C30_FitsPanel ==
    \A c \in Calls :
       Returned(c) =>
          frame[c].schedule.spaces_used <= frame[c].schedule.spaces_total

====
